---- MODULE Spec2Model ----
(***************************************************************************)
(* LIMEX (bpmn-os/limex): the expression library of limex.h.               *)
(*                                                                         *)
(* An Expression is constructed from an input string and a Handle:         *)
(*   tokenize  : input -> tree of tokens (one action per loop iteration)   *)
(*   buildTree : token tree -> AST (one action per token of a token list,  *)
(*               an explicit stack of activations for the recursion)       *)
(*   evaluate  : AST x variable values -> value (a recursive operator)     *)
(*                                                                         *)
(* Representation.                                                         *)
(*  - A std::string is a sequence of characters, each a one-character      *)
(*    string.  A non-ASCII glyph of the lexical tables is one character    *)
(*    written with an ASCII name: "u_not" (logical not sign), "u_sq",      *)
(*    "u_cube" (superscript two, three), "u_assign" (colon-equals sign),   *)
(*    "u_ne", "u_le", "u_ge", "u_and", "u_or", "u_in", "u_notin",          *)
(*    "u_sum", "u_sqrt", "u_cbrt".  The source works on the bytes of the   *)
(*    UTF-8 encoding; no byte of such a glyph is a space, a digit, a       *)
(*    letter or an ASCII operator, so one position per glyph is the same   *)
(*    automaton with shorter jumps.                                        *)
(*  - A double is a rational [n, d] in lowest terms with d > 0; d = 0      *)
(*    stands for +inf (n = 1), -inf (n = -1) and NaN (n = 0).  Results     *)
(*    that are not rational (a root of a non-square, a fractional power)   *)
(*    end the evaluation with the status "inexact": no formula below       *)
(*    rests on such a run.                                                 *)
(***************************************************************************)
EXTENDS Integers, Sequences, FiniteSets, TLC

(***************************************************************************)
(* Bounds of the model.                                                    *)
(***************************************************************************)
\* literal operands of the generated inputs are the digits 0..MaxLit
MaxLit == 2
\* the values bound to variables at evaluation are 0..MaxValue
MaxValue == 5

(***************************************************************************)
(* Characters.                                                             *)
(***************************************************************************)
DigitChar == <<"0", "1", "2", "3", "4", "5", "6", "7", "8", "9">>

Digits == {DigitChar[k] : k \in 1..10}

Letters ==
  {"a", "b", "c", "d", "e", "f", "g", "h", "i", "j", "k", "l", "m",
   "n", "o", "p", "q", "r", "s", "t", "u", "v", "w", "x", "y", "z",
   "A", "B", "C", "D", "E", "F", "G", "H", "I", "J", "K", "L", "M",
   "N", "O", "P", "Q", "R", "S", "T", "U", "V", "W", "X", "Y", "Z"}

Spaces == {" ", "\t", "\n", "\r", "\f"}

isnumeric(c) == c \in Digits \cup {"."}

isalphanumeric(c) == c \in Letters \cup Digits \cup {"_"}

DigitValue(c) == (CHOOSE k \in 1..10 : DigitChar[k] = c) - 1

(***************************************************************************)
(* Lexical tables (the order of a table is the order fetch tries it in).   *)
(***************************************************************************)
keywords == << <<"f", "a", "l", "s", "e">>, <<"t", "r", "u", "e">> >>

ternary == << <<"i", "f">>, <<"t", "h", "e", "n">>, <<"e", "l", "s", "e">> >>

prefix == << <<"!">>, <<"u_not">>, <<"-">> >>

infix ==
  << <<",">>, <<"=", "=">>, <<"!", "=">>, <<"<", "=">>, <<">", "=">>,
     <<"<">>, <<">">>, <<":", "=">>, <<"u_assign">>, <<"+", "=">>,
     <<"-", "=">>, <<"*", "=">>, <<"/", "=">>, <<"+">>, <<"-">>, <<"*">>,
     <<"/">>, <<"^">>, <<"&", "&">>, <<"|", "|">>, <<"?">>, <<":">>,
     <<"a", "n", "d">>, <<"o", "r">>, <<"i", "n">>,
     <<"n", "o", "t", " ", "i", "n">>, <<"u_ne">>, <<"u_le">>, <<"u_ge">>,
     <<"u_and">>, <<"u_or">>, <<"u_in">>, <<"u_notin">> >>

postfix == << <<"u_sq">>, <<"u_cube">> >>

symbolic_names == << <<"u_sum">>, <<"u_sqrt">>, <<"u_cbrt">> >>

aliases(s) ==
  CASE s = <<"u_sum">> -> <<"s", "u", "m">>
    [] s = <<"u_sqrt">> -> <<"s", "q", "r", "t">>
    [] s = <<"u_cbrt">> -> <<"c", "b", "r", "t">>

\* the node types, in the order of enum class Type
TypeNames ==
  <<"literal", "variable", "collection", "group", "set", "sequence",
    "function_call", "aggregation", "index", "negate", "logical_not",
    "logical_and", "logical_or", "add", "subtract", "multiply", "divide",
    "exponentiate", "square", "cube", "less_than", "less_or_equal",
    "greater_than", "greater_or_equal", "equal_to", "not_equal_to",
    "element_of", "not_element_of", "if_", "_then_", "_else",
    "if_then_else", "assign", "add_assign", "subtract_assign",
    "multiply_assign", "divide_assign">>

\* (int)type
TypeOrd(t) == CHOOSE k \in 1..Len(TypeNames) : TypeNames[k] = t

prefixTypes(v) ==
  CASE v = <<"-">> -> "negate"
    [] v = <<"!">> -> "logical_not"
    [] v = <<"u_not">> -> "logical_not"
    [] v = <<"i", "f">> -> "if_"

infixTypes(v) ==
  CASE v \in {<<"&", "&">>, <<"u_and">>, <<"a", "n", "d">>} -> "logical_and"
    [] v \in {<<"|", "|">>, <<"u_or">>, <<"o", "r">>} -> "logical_or"
    [] v = <<"+">> -> "add"
    [] v = <<"-">> -> "subtract"
    [] v = <<"*">> -> "multiply"
    [] v = <<"/">> -> "divide"
    [] v = <<"^">> -> "exponentiate"
    [] v = <<"<">> -> "less_than"
    [] v \in {<<"<", "=">>, <<"u_le">>} -> "less_or_equal"
    [] v = <<">">> -> "greater_than"
    [] v \in {<<">", "=">>, <<"u_ge">>} -> "greater_or_equal"
    [] v = <<"=", "=">> -> "equal_to"
    [] v \in {<<"!", "=">>, <<"u_ne">>} -> "not_equal_to"
    [] v \in {<<"i", "n">>, <<"u_in">>} -> "element_of"
    [] v \in {<<"n", "o", "t", " ", "i", "n">>, <<"u_notin">>} -> "not_element_of"
    [] v \in {<<"t", "h", "e", "n">>, <<"?">>} -> "_then_"
    [] v \in {<<"e", "l", "s", "e">>, <<":">>} -> "_else"
    [] v \in {<<":", "=">>, <<"u_assign">>} -> "assign"
    [] v = <<"+", "=">> -> "add_assign"
    [] v = <<"-", "=">> -> "subtract_assign"
    [] v = <<"*", "=">> -> "multiply_assign"
    [] v = <<"/", "=">> -> "divide_assign"

postfixTypes(v) ==
  CASE v = <<"u_sq">> -> "square"
    [] v = <<"u_cube">> -> "cube"

precedences(t) ==
  CASE t \in {"group", "set", "function_call", "aggregation", "index"} -> 1
    [] t \in {"square", "cube", "exponentiate"} -> 2
    [] t \in {"negate", "logical_not"} -> 3
    [] t \in {"multiply", "divide", "logical_and"} -> 4
    [] t \in {"add", "subtract", "logical_or"} -> 5
    [] t \in {"if_", "_then_", "_else"} -> 6
    [] t \in {"less_than", "greater_than", "less_or_equal",
              "greater_or_equal", "equal_to", "not_equal_to",
              "element_of", "not_element_of"} -> 7
    [] t \in {"assign", "add_assign", "subtract_assign", "multiply_assign",
              "divide_assign"} -> 8

(***************************************************************************)
(* The numeric type double.                                                *)
(***************************************************************************)
Abs(x) == IF x < 0 THEN -x ELSE x

Sgn(x) == IF x < 0 THEN -1 ELSE IF x > 0 THEN 1 ELSE 0

RECURSIVE GCD(_, _)
GCD(a, b) == IF b = 0 THEN a ELSE GCD(b, a % b)

Dbl(n, d) ==
  IF d = 0 THEN [n |-> Sgn(n), d |-> 0]
  ELSE LET g == GCD(Abs(n), Abs(d))
       IN  [n |-> (Sgn(d) * n) \div g, d |-> Abs(d) \div g]

Num(k) == [n |-> k, d |-> 1]

NaN == [n |-> 0, d |-> 0]

IsNaN(a) == a.n = 0 /\ a.d = 0

\* bool -> double
Bool(b) == IF b THEN Num(1) ELSE Num(0)

\* double -> bool: every value but zero is true (NaN included)
Truthy(a) == ~(a.n = 0 /\ a.d # 0)

Neg(a) == [n |-> -a.n, d |-> a.d]

Add(a, b) ==
  IF IsNaN(a) \/ IsNaN(b) THEN NaN
  ELSE IF a.d = 0 /\ b.d = 0 THEN (IF a.n = b.n THEN a ELSE NaN)
  ELSE IF a.d = 0 THEN a
  ELSE IF b.d = 0 THEN b
  ELSE Dbl(a.n * b.d + b.n * a.d, a.d * b.d)

Sub(a, b) == Add(a, Neg(b))

Mul(a, b) == Dbl(a.n * b.n, a.d * b.d)

\* 1/a (the sign of a zero is not modelled: 1/0 is +inf)
Inv(a) ==
  IF a.n > 0 THEN [n |-> a.d, d |-> a.n]
  ELSE IF a.n < 0 THEN [n |-> -a.d, d |-> -a.n]
  ELSE IF a.d = 0 THEN NaN
  ELSE [n |-> 1, d |-> 0]

Div(a, b) == Mul(a, Inv(b))

Less(a, b) ==
  IF IsNaN(a) \/ IsNaN(b) THEN FALSE
  ELSE IF a.d = 0 THEN a.n < 0 /\ ~(b.d = 0 /\ b.n < 0)
  ELSE IF b.d = 0 THEN b.n > 0
  ELSE a.n * b.d < b.n * a.d

\* a comparison that also accepts a smaller left side
Equal_OrLess(a, b) == ~IsNaN(a) /\ ~IsNaN(b) /\ (a = b \/ Less(a, b))

Equal(a, b) == ~IsNaN(a) /\ ~IsNaN(b) /\ a = b

LessEq(a, b) == Less(a, b) \/ Equal(a, b)

RECURSIVE PowNat(_, _)
PowNat(a, k) == IF k = 0 THEN Num(1) ELSE Mul(a, PowNat(a, k - 1))

\* exact roots: the r with r^k = m, or -1 when m is no k-th power
Root(m, k) ==
  IF \E r \in 0..m : PowNat(Num(r), k) = Num(m)
  THEN CHOOSE r \in 0..m : PowNat(Num(r), k) = Num(m)
  ELSE -1

(***************************************************************************)
(* The outcome of an evaluation or of a call: a value, or what ended it.   *)
(*   "runtime_error"      std::runtime_error                               *)
(*   "logic_error"        std::logic_error                                 *)
(*   "bad_variant_access" std::get on the wrong alternative of an operand  *)
(*   "ub"                 undefined behaviour (an unchecked index)         *)
(*   "inexact"            a result that is no rational: outside the model  *)
(***************************************************************************)
Ok(v) == [status |-> "ok", value |-> v]

Fail(s) == [status |-> s, value |-> NaN]

\* std::stod on a lexeme of digits and dots: digits, an optional dot,
\* digits; the conversion stops at a second dot; no digit at all throws
\* std::invalid_argument, which is a std::logic_error
RECURSIVE DigitRun(_, _)
DigitRun(s, k) ==
  IF k <= Len(s) /\ s[k] \in Digits THEN DigitRun(s, k + 1) ELSE k - 1

RECURSIVE DigitsValue(_, _, _)
DigitsValue(s, from, to) ==
  IF from > to THEN 0
  ELSE 10 * DigitsValue(s, from, to - 1) + DigitValue(s[to])

stod(s) ==
  LET ie == DigitRun(s, 1)
      hasDot == ie + 1 <= Len(s) /\ s[ie + 1] = "."
      fe == IF hasDot THEN DigitRun(s, ie + 2) ELSE ie
      nfrac == IF hasDot THEN fe - (ie + 1) ELSE 0
  IN  IF ie = 0 /\ nfrac = 0 THEN Fail("logic_error")
      ELSE Ok(Add(Num(DigitsValue(s, 1, ie)),
                  Dbl(DigitsValue(s, ie + 2, fe), PowNat(Num(10), nfrac).n)))

(***************************************************************************)
(* Handle<double>: the built-in callables, in the order of initialize().   *)
(***************************************************************************)
IF_THEN_ELSE == 0
N_ARY_IF == 1
ABS == 2
POW == 3
SQRT == 4
CBRT == 5
SUM == 6
AVG == 7
COUNT == 8
MIN == 9
MAX == 10
ELEMENT_OF == 11
NOT_ELEMENT_OF == 12
AT == 13
BUILTINS == 14

BuiltinNames ==
  << <<"i", "f", "_", "t", "h", "e", "n", "_", "e", "l", "s", "e">>,
     <<"n", "_", "a", "r", "y", "_", "i", "f">>,
     <<"a", "b", "s">>,
     <<"p", "o", "w">>,
     <<"s", "q", "r", "t">>,
     <<"c", "b", "r", "t">>,
     <<"s", "u", "m">>,
     <<"a", "v", "g">>,
     <<"c", "o", "u", "n", "t">>,
     <<"m", "i", "n">>,
     <<"m", "a", "x">>,
     <<"e", "l", "e", "m", "e", "n", "t", "_", "o", "f">>,
     <<"n", "o", "t", "_", "e", "l", "e", "m", "e", "n", "t", "_", "o", "f">>,
     <<"a", "t">> >>

\* the lambdas of initialize(), named by their position
BuiltinImplementations ==
  <<"if_then_else", "n_ary_if", "abs", "pow", "sqrt", "cbrt", "sum", "avg",
    "count", "min", "max", "element_of", "not_element_of", "at">>

RECURSIVE SumOf(_, _)
SumOf(args, k) == IF k = 0 THEN Num(0) ELSE Add(SumOf(args, k - 1), args[k])

RECURSIVE MinOf(_, _)
MinOf(args, k) ==
  IF k = 1 THEN args[1]
  ELSE LET m == MinOf(args, k - 1) IN IF Less(args[k], m) THEN args[k] ELSE m

RECURSIVE MaxOf(_, _)
MaxOf(args, k) ==
  IF k = 1 THEN args[1]
  ELSE LET m == MaxOf(args, k - 1) IN IF Less(m, args[k]) THEN args[k] ELSE m

RECURSIVE NAryIf(_, _)
NAryIf(args, i) ==
  IF i > Len(args) \div 2 THEN args[Len(args)]
  ELSE IF Truthy(args[2 * i - 1]) THEN args[2 * i]
  ELSE NAryIf(args, i + 1)

std_pow(x, y) ==
  IF y.d # 1 THEN Fail("inexact")
  ELSE IF y.n >= 0 THEN Ok(PowNat(x, y.n))
  ELSE Ok(Inv(PowNat(x, -y.n)))

std_root(x, k) ==
  IF x.d = 0 THEN Ok(x)
  ELSE IF x.n < 0 /\ k = 2 THEN Ok(NaN)
  ELSE LET rn == Root(Abs(x.n), k)
           rd == Root(x.d, k)
       IN  IF rn < 0 \/ rd < 0 THEN Fail("inexact")
           ELSE Ok(Dbl(Sgn(x.n) * rn, rd))

\* the call implementations[index](args) for a built-in lambda
CallImplementation(impl, args) ==
  CASE impl = "if_then_else" ->
         IF Len(args) # 3 THEN Fail("runtime_error")
         ELSE Ok(IF Truthy(args[1]) THEN args[2] ELSE args[3])
    [] impl = "n_ary_if" ->
         IF Len(args) = 0 \/ Len(args) % 2 # 1 THEN Fail("runtime_error")
         ELSE Ok(NAryIf(args, 1))
    [] impl = "abs" ->
         IF Len(args) # 1 THEN Fail("runtime_error")
         ELSE Ok(IF LessEq(Num(0), args[1]) THEN args[1] ELSE Neg(args[1]))
    [] impl = "pow" ->
         IF Len(args) # 2 THEN Fail("runtime_error")
         ELSE std_pow(args[1], args[2])
    [] impl = "sqrt" ->
         IF Len(args) # 1 THEN Fail("runtime_error") ELSE std_root(args[1], 2)
    [] impl = "cbrt" ->
         IF Len(args) # 1 THEN Fail("runtime_error") ELSE std_root(args[1], 3)
    [] impl = "sum" -> Ok(SumOf(args, Len(args)))
    [] impl = "avg" ->
         IF Len(args) = 0 THEN Fail("runtime_error")
         ELSE Ok(Div(SumOf(args, Len(args)), Num(Len(args))))
    [] impl = "count" -> Ok(Num(Len(args)))
    [] impl = "min" ->
         IF Len(args) = 0 THEN Fail("runtime_error")
         ELSE Ok(MinOf(args, Len(args)))
    [] impl = "max" ->
         IF Len(args) = 0 THEN Fail("runtime_error")
         ELSE Ok(MaxOf(args, Len(args)))
    [] impl = "element_of" ->
         IF Len(args) = 0 THEN Fail("runtime_error")
         ELSE Ok(Bool(\E i \in 2..Len(args) : Equal(args[1], args[i])))
    [] impl = "not_element_of" ->
         IF Len(args) = 0 THEN Fail("runtime_error")
         ELSE Ok(Bool(~\E i \in 2..Len(args) : Equal(args[1], args[i])))
    [] impl = "at" -> Fail("runtime_error")

(***************************************************************************)
(* State.                                                                  *)
(***************************************************************************)
VARIABLES
  pc,              \* "tokenize", "build", "built", "evaluated", "failed"
  input,           \* Expression::input
  names,           \* Handle::names
  implementations, \* Handle::implementations
  pos,             \* tokenize: position in input (0-based)
  expected,        \* tokenize: the expected token category
  groupStack,      \* tokenize: stack of [first: token, second: terminator]
  tokens,          \* the tokens made so far; token 1 is the root token
  frames,          \* the activations of buildTree, the running one last
  variables,       \* Expression::variables
  collections,     \* Expression::collections
  target,          \* Expression::target: <<>> or <<name>>
  root,            \* Expression::root: <<>> or <<node>>
  values,          \* the variable values of the last evaluate call
  collectionValues,\* the collection values of the last evaluate call
  result,          \* the outcome of the last evaluate call
  error,           \* the exception that ended the construction
  lastAdd          \* the last call of Handle::add: its name and its outcome

vars ==
  <<pc, input, names, implementations, pos, expected, groupStack, tokens,
    frames, variables, collections, target, root, values, collectionValues,
    result, error, lastAdd>>

NoError == [kind |-> "none", what |-> "none"]

NoResult == [status |-> "none", value |-> NaN]

NoAdd == [name |-> <<>>, status |-> "none"]

(***************************************************************************)
(* Tokenizer.  A token is a record of the sequence tokens; a Token* is an  *)
(* index into it and children holds the indices of a token's children in   *)
(* their order.                                                            *)
(***************************************************************************)
Token(category, type, value) ==
  [category |-> category, type |-> type, value |-> value, children |-> <<>>]

RECURSIVE skipWhitespaces(_, _)
skipWhitespaces(in, p) ==
  IF p < Len(in) /\ in[p + 1] \in Spaces THEN skipWhitespaces(in, p + 1) ELSE p

\* a comparison of the leading characters alone, without a look at the
\* character that follows the candidate
startsWith_NoBoundary(in, start, candidate) ==
  /\ start + Len(candidate) <= Len(in)
  /\ SubSeq(in, start + 1, start + Len(candidate)) = candidate

startsWith(in, start, candidate) ==
  LET n == Len(candidate)
  IN  /\ start + n <= Len(in)
      /\ SubSeq(in, start + 1, start + n) = candidate
      /\ \/ ~isalphanumeric(candidate[n])
         \/ start + n = Len(in)
         \/ ~isalphanumeric(in[start + n + 1])

RECURSIVE fetchFrom(_, _, _, _)
fetchFrom(in, start, list, k) ==
  IF k > Len(list) THEN <<>>
  ELSE IF startsWith(in, start, list[k]) THEN list[k]
  ELSE fetchFrom(in, start, list, k + 1)

\* the first candidate of the list the input starts with at start, or ""
fetch(in, start, list) == fetchFrom(in, start, list, 1)

\* one past the last character of the run of numeric characters from p
RECURSIVE NumericRun(_, _)
NumericRun(in, p) ==
  IF p < Len(in) /\ isnumeric(in[p + 1]) THEN NumericRun(in, p + 1) ELSE p

RECURSIVE NameRun(_, _)
NameRun(in, p) ==
  IF p < Len(in) /\ isalphanumeric(in[p + 1]) THEN NameRun(in, p + 1) ELSE p

\* a variant of emplace_back that appends to the children of the root
EmplaceBack_AtRoot(t, tok) ==
  LET top == t.groupStack[1].first
      id == Len(t.tokens) + 1
  IN  [t EXCEPT !.tokens =
         Append([@ EXCEPT ![top].children = Append(@, id)], tok)]

\* groupStack.top().first->children.emplace_back(tok)
EmplaceBack(t, tok) ==
  LET top == t.groupStack[Len(t.groupStack)].first
      id == Len(t.tokens) + 1
  IN  [t EXCEPT !.tokens =
         Append([@ EXCEPT ![top].children = Append(@, id)], tok)]

\* emplace_back(tok), then groupStack.emplace(&children.back(), terminator)
OpenGroup(t, tok, terminator) ==
  LET u == EmplaceBack(t, tok)
  IN  [u EXCEPT !.groupStack =
         Append(@, [first |-> Len(u.tokens), second |-> terminator])]

Pop(t) ==
  [t EXCEPT !.groupStack = SubSeq(@, 1, Len(@) - 1)]

Throw(t, kind, what) == [t EXCEPT !.status = kind, !.what = what]

Continue(t) == [t EXCEPT !.status = "continue"]

\* a phase of an iteration runs only if no earlier one has ended the
\* iteration (continue, break or throw)
Running(t) == t.status = "run"

\* if ( expected == PREFIX ) { ... }
PrefixPhase(in, t) ==
  IF ~Running(t) \/ t.expected # "PREFIX" THEN t
  ELSE LET match == fetch(in, t.pos, prefix)
           p == t.pos + Len(match)
       IN  IF match = <<>> THEN [t EXCEPT !.expected = "OPERAND"]
           ELSE IF p = Len(in)
             THEN Throw(t, "runtime_error", "prefix_without_operand")
           ELSE [EmplaceBack([t EXCEPT !.pos = p],
                             Token("PREFIX", "OPERATOR", match))
                   EXCEPT !.expected = "OPERAND"]

\* a variant of the name branch whose empty-bracket collection ends the
\* iteration, so that the next iteration starts in the operand state
NameOperand_Continuing(in, t) ==
  LET e == NameRun(in, t.pos)
      name == SubSeq(in, t.pos + 1, e)
      next == IF e < Len(in) THEN in[e + 1] ELSE ""
  IN  IF next = "("
        THEN Continue(OpenGroup([t EXCEPT !.pos = e + 1, !.expected = "PREFIX"],
                                Token("OPERAND", "FUNCTION_CALL", name), <<")">>))
      ELSE IF startsWith(in, e, <<"[", "]">>)
        THEN Continue(EmplaceBack([t EXCEPT !.pos = e + 2, !.expected = "OPERAND"],
                                  Token("OPERAND", "COLLECTION", name)))
      ELSE IF next = "["
        THEN Continue(OpenGroup([t EXCEPT !.pos = e + 1, !.expected = "PREFIX"],
                                Token("OPERAND", "INDEXED_VARIABLE", name), <<"]">>))
      ELSE IF next = "{"
        THEN Continue(OpenGroup([t EXCEPT !.pos = e + 1, !.expected = "PREFIX"],
                                Token("OPERAND", "AGGREGATION", name), <<"}">>))
      ELSE EmplaceBack([t EXCEPT !.pos = e, !.expected = "POSTFIX"],
                       Token("OPERAND", "VARIABLE", name))

\* the name branch of the operand state
NameOperand(in, t) ==
  LET e == NameRun(in, t.pos)
      name == SubSeq(in, t.pos + 1, e)
      next == IF e < Len(in) THEN in[e + 1] ELSE ""
  IN  IF next = "("
        THEN Continue(OpenGroup([t EXCEPT !.pos = e + 1, !.expected = "PREFIX"],
                                Token("OPERAND", "FUNCTION_CALL", name), <<")">>))
      ELSE IF startsWith(in, e, <<"[", "]">>)
        THEN EmplaceBack([t EXCEPT !.pos = e + 2, !.expected = "OPERAND"],
                         Token("OPERAND", "COLLECTION", name))
      ELSE IF next = "["
        THEN Continue(OpenGroup([t EXCEPT !.pos = e + 1, !.expected = "PREFIX"],
                                Token("OPERAND", "INDEXED_VARIABLE", name), <<"]">>))
      ELSE IF next = "{"
        THEN Continue(OpenGroup([t EXCEPT !.pos = e + 1, !.expected = "PREFIX"],
                                Token("OPERAND", "AGGREGATION", name), <<"}">>))
      ELSE EmplaceBack([t EXCEPT !.pos = e, !.expected = "POSTFIX"],
                       Token("OPERAND", "VARIABLE", name))

\* the symbolic name branch of the operand state
SymbolicOperand(in, t, match) ==
  LET p == t.pos + Len(match)
      next == IF p < Len(in) THEN in[p + 1] ELSE ""
  IN  IF next = "("
        THEN Continue(OpenGroup([t EXCEPT !.pos = p + 1, !.expected = "PREFIX"],
                                Token("OPERAND", "FUNCTION_CALL", aliases(match)),
                                <<")">>))
      ELSE IF next = "{"
        THEN Continue(OpenGroup([t EXCEPT !.pos = p + 1, !.expected = "PREFIX"],
                                Token("OPERAND", "AGGREGATION", aliases(match)),
                                <<"}">>))
      ELSE Throw(t, "runtime_error", "symbolic_name")

\* if ( expected == OPERAND ) { ... }
OperandPhase(in, t) ==
  IF ~Running(t) \/ t.expected # "OPERAND" THEN t
  ELSE
  LET p == t.pos
      c == in[p + 1]
      kw == fetch(in, p, keywords)
      sym == fetch(in, p, symbolic_names)
  IN  IF kw # <<>>
        THEN Continue(EmplaceBack(
               [t EXCEPT !.pos = p + Len(kw), !.expected = "INFIX"],
               Token("OPERAND", "NUMBER",
                     IF kw = keywords[2] THEN <<"1">> ELSE <<"0">>)))
      ELSE IF startsWith(in, p, ternary[1])
        THEN Continue(OpenGroup([t EXCEPT !.pos = p + 2, !.expected = "PREFIX"],
                                Token("PREFIX", "GROUP", ternary[1]), ternary[2]))
      ELSE IF startsWith(in, p, ternary[2]) \/ startsWith(in, p, ternary[3])
        THEN [t EXCEPT !.expected = "INFIX"]
      ELSE IF isnumeric(c)
        THEN LET e == NumericRun(in, p)
             IN  EmplaceBack([t EXCEPT !.pos = e, !.expected = "POSTFIX"],
                             Token("OPERAND", "NUMBER", SubSeq(in, p + 1, e)))
      ELSE IF isalphanumeric(c) THEN NameOperand(in, t)
      ELSE IF sym # <<>> THEN SymbolicOperand(in, t, sym)
      ELSE IF c = "("
        THEN Continue(OpenGroup([t EXCEPT !.pos = p + 1, !.expected = "PREFIX"],
                                Token("OPERAND", "GROUP", <<>>), <<")">>))
      ELSE IF c = "{"
        THEN Continue(OpenGroup([t EXCEPT !.pos = p + 1, !.expected = "PREFIX"],
                                Token("OPERAND", "SET", <<>>), <<"}">>))
      ELSE IF c = "["
        THEN Continue(OpenGroup([t EXCEPT !.pos = p + 1, !.expected = "PREFIX"],
                                Token("OPERAND", "SEQUENCE", <<>>), <<"]">>))
      ELSE Throw(t, "runtime_error", "unexpected_operand")

\* if ( expected == POSTFIX ) { ... }
PostfixPhase(in, t) ==
  IF ~Running(t) \/ t.expected # "POSTFIX" THEN t
  ELSE LET match == fetch(in, t.pos, postfix)
       IN  IF match = <<>> THEN [t EXCEPT !.expected = "INFIX"]
           ELSE EmplaceBack(
                  [t EXCEPT !.pos = t.pos + Len(match), !.expected = "INFIX"],
                  Token("POSTFIX", "OPERATOR", match))

\* if ( startsWith(input,pos,groupStack.top().second) ) { ... }
\* a closure that accepts any closing bracket for the group on top
ClosurePhase_AnyBracket(in, t) ==
  LET second == t.groupStack[Len(t.groupStack)].second
      u == Pop([t EXCEPT !.pos = t.pos + Len(second)])
  IN  IF ~Running(t) THEN t
      ELSE IF Len(t.groupStack) > 1 /\ in[t.pos + 1] \in {")", "]", "}"}
        THEN Continue(Pop([t EXCEPT !.pos = t.pos + 1, !.expected = "POSTFIX"]))
      ELSE IF ~startsWith(in, t.pos, second) THEN t
      ELSE IF second = ternary[2]
        THEN Continue(OpenGroup([u EXCEPT !.expected = "PREFIX"],
                                Token("INFIX", "GROUP", ternary[2]), ternary[3]))
      ELSE IF second = <<":">> \/ second = ternary[3]
        THEN Continue(EmplaceBack([u EXCEPT !.expected = "PREFIX"],
                                  Token("INFIX", "OPERATOR", second)))
      ELSE Continue([u EXCEPT !.expected = "POSTFIX"])

ClosurePhase(in, t) ==
  LET second == t.groupStack[Len(t.groupStack)].second
      u == Pop([t EXCEPT !.pos = t.pos + Len(second)])
  IN  IF ~Running(t) THEN t
      ELSE IF ~startsWith(in, t.pos, second) THEN t
      ELSE IF second = ternary[2]
        THEN Continue(OpenGroup([u EXCEPT !.expected = "PREFIX"],
                                Token("INFIX", "GROUP", ternary[2]), ternary[3]))
      ELSE IF second = <<":">> \/ second = ternary[3]
        THEN Continue(EmplaceBack([u EXCEPT !.expected = "PREFIX"],
                                  Token("INFIX", "OPERATOR", second)))
      ELSE Continue([u EXCEPT !.expected = "POSTFIX"])

\* if ( expected == INFIX ) { ... } and the final throw
InfixPhase(in, t) ==
  LET c == in[t.pos + 1]
      match == fetch(in, t.pos, infix)
  IN  IF ~Running(t) THEN t
      ELSE IF t.expected = "INFIX" /\ c = ","
        THEN Continue(EmplaceBack([t EXCEPT !.pos = t.pos + 1, !.expected = "PREFIX"],
                                  Token("INFIX", "SEPARATOR", <<",">>)))
      ELSE IF t.expected = "INFIX" /\ c = "?"
        THEN Continue(OpenGroup([t EXCEPT !.pos = t.pos + 1, !.expected = "PREFIX"],
                                Token("INFIX", "GROUP", <<"?">>), <<":">>))
      ELSE IF t.expected = "INFIX" /\ match # <<>>
        THEN Continue(EmplaceBack(
               [t EXCEPT !.pos = t.pos + Len(match), !.expected = "PREFIX"],
               Token("INFIX", "OPERATOR", match)))
      ELSE Throw(t, "runtime_error", "unexpected_character")

\* skipWhitespaces(input,pos); if ( pos == input.length() ) break;
SkipPhase(in, t) ==
  LET p == skipWhitespaces(in, t.pos)
  IN  IF ~Running(t) THEN t
      ELSE [t EXCEPT !.pos = p, !.status = IF p = Len(in) THEN "break" ELSE @]

\* groupStack.top() of the iteration: with the root popped off the group
\* stack it is top() of an empty std::stack
TopOfGroupStack(t) ==
  IF Running(t) /\ t.groupStack = <<>>
    THEN Throw(t, "ub", "top_of_empty_stack")
  ELSE t

\* one iteration of the loop of tokenize: the phases in their order
Iteration(in, t0) ==
  InfixPhase(in,
    ClosurePhase(in,
      SkipPhase(in,
        PostfixPhase(in,
          OperandPhase(in,
            PrefixPhase(in,
              TopOfGroupStack(SkipPhase(in, t0))))))))

(***************************************************************************)
(* Nodes.  An operand of a node is a std::variant<double, size_t, Node>;   *)
(* the three alternatives are records of one shape, told apart by type:    *)
(* "double" and "size_t" carry a value and never occur as a node type.     *)
(***************************************************************************)
Node(type, operands) == [type |-> type, operands |-> operands, value |-> Num(0)]

DoubleOperand(v) == [type |-> "double", operands |-> <<>>, value |-> v]

SizeOperand(k) == [type |-> "size_t", operands |-> <<>>, value |-> Num(k)]

HoldsNode(operand) == operand.type \notin {"double", "size_t"}

\* Node(expression, double value)
LiteralNode(v) == Node("literal", <<DoubleOperand(v)>>)

\* a getIndex that does not look the name up
getIndex_NoLookup(container, name) ==
  [container |-> Append(container, name), index |-> Len(container)]

\* Expression::getIndex(container, name): the container after the call
\* and the index returned
getIndex(container, name) ==
  IF \E k \in 1..Len(container) : container[k] = name
  THEN [container |-> container,
        index |-> (CHOOSE k \in 1..Len(container) : container[k] = name) - 1]
  ELSE [container |-> Append(container, name), index |-> Len(container)]

\* Handle::getIndex(name): the index, or -1 for the std::logic_error
\* a lookup that answers with the first callable for a name it does not hold
HandleGetIndex_First(nms, name) ==
  IF \E k \in 1..Len(nms) : nms[k] = name
  THEN (CHOOSE k \in 1..Len(nms) :
          nms[k] = name /\ \A j \in 1..(k - 1) : nms[j] # name) - 1
  ELSE 0

HandleGetIndex(nms, name) ==
  IF \E k \in 1..Len(nms) : nms[k] = name
  THEN (CHOOSE k \in 1..Len(nms) :
          nms[k] = name /\ \A j \in 1..(k - 1) : nms[j] # name) - 1
  ELSE -1

\* a handle that appends without a look at the names it holds
add_NoCheck(nms, impls, name, implementation) ==
  [names |-> Append(nms, name), implementations |-> Append(impls, implementation),
   status |-> "ok"]

\* a handle that puts a new callable in front of the ones it holds
add_Front(nms, impls, name, implementation) ==
  IF \E k \in 1..Len(nms) : nms[k] = name
    THEN [names |-> nms, implementations |-> impls, status |-> "runtime_error"]
  ELSE [names |-> <<name>> \o nms,
        implementations |-> <<implementation>> \o impls, status |-> "ok"]

\* Handle::add(name, implementation)
add(nms, impls, name, implementation) ==
  IF \E k \in 1..Len(nms) : nms[k] = name
    THEN [names |-> nms, implementations |-> impls, status |-> "runtime_error"]
  ELSE [names |-> Append(nms, name),
        implementations |-> Append(impls, implementation), status |-> "ok"]

(***************************************************************************)
(* Tree builder.  An activation of buildTree is a frame                    *)
(*   type, index        the arguments (index: <<>> or <<k>>)               *)
(*   toks               the argument tokens, as indices into tokens        *)
(*   i                  the loop counter (0-based)                         *)
(*   operands           the operands of the node being built               *)
(*   nodeStack, operatorStack   the two stacks, top last                   *)
(*   status, what       "run", or the exception thrown                     *)
(***************************************************************************)
Frame(type, toks, index) ==
  [type |-> type, toks |-> toks, i |-> 0,
   operands |-> IF index = <<>> THEN <<>> ELSE <<SizeOperand(index[1])>>,
   nodeStack |-> <<>>, operatorStack |-> <<>>,
   status |-> "run", what |-> "none"]

Top(stack) == stack[Len(stack)]

Drop(stack, k) == SubSeq(stack, 1, Len(stack) - k)

\* the lambda applyOperator
\* an applyOperator that leaves the kinds of the parts of a ternary as they
\* were built
ApplyOperator_KeepingKinds(f, operatorType) ==
  LET ns == f.nodeStack
      n == Len(ns)
      os == f.operatorStack
  IN  IF operatorType = "_else" THEN
        IF Len(os) < 2
          THEN Throw(f, "logic_error", "insufficient_operators_for_ternary")
        ELSE IF Top(Drop(os, 1)) # "_then_"
          THEN Throw(f, "logic_error", "wrong_operators_for_ternary")
        ELSE IF n < 3
          THEN Throw(f, "logic_error", "insufficient_operands_for_ternary")
        ELSE [f EXCEPT !.operatorStack = Drop(os, 1),
                       !.nodeStack =
                         Append(Drop(ns, 3),
                                Node("if_then_else", <<ns[n - 2], ns[n - 1], ns[n]>>))]
      ELSE IF TypeOrd(operatorType) >= TypeOrd("assign") THEN
        IF n < 2
          THEN Throw(f, "runtime_error", "insufficient_operands_for_assignment")
        ELSE IF ns[n - 1].type # "variable"
          THEN Throw(f, "runtime_error", "illegal_target_for_assignment")
        ELSE IF operatorType = "assign"
          THEN [f EXCEPT !.nodeStack =
                  Append(Drop(ns, 2), Node("assign", <<ns[n]>>))]
        ELSE [f EXCEPT !.nodeStack =
                Append(Drop(ns, 2), Node(operatorType, <<ns[n - 1], ns[n]>>))]
      ELSE
        IF n < 2
          THEN Throw(f, "logic_error", "insufficient_operands_for_infix")
        ELSE [f EXCEPT !.nodeStack =
                Append(Drop(ns, 2), Node(operatorType, <<ns[n - 1], ns[n]>>))]

ApplyOperator(f, operatorType) ==
  LET ns == f.nodeStack
      n == Len(ns)
      os == f.operatorStack
  IN  IF operatorType = "_else" THEN
        IF Len(os) < 2
          THEN Throw(f, "logic_error", "insufficient_operators_for_ternary")
        ELSE IF Top(Drop(os, 1)) # "_then_"
          THEN Throw(f, "logic_error", "wrong_operators_for_ternary")
        ELSE IF n < 3
          THEN Throw(f, "logic_error", "insufficient_operands_for_ternary")
        ELSE LET else_result == ns[n]
                 then_result == [ns[n - 1] EXCEPT !.type = "group"]
                 condition == IF ns[n - 2].type = "if_"
                                THEN [ns[n - 2] EXCEPT !.type = "group"]
                                ELSE ns[n - 2]
             IN  [f EXCEPT !.operatorStack = Drop(os, 1),
                           !.nodeStack =
                             Append(Drop(ns, 3),
                                    Node("if_then_else",
                                         <<condition, then_result, else_result>>))]
      ELSE IF TypeOrd(operatorType) >= TypeOrd("assign") THEN
        IF n < 2
          THEN Throw(f, "runtime_error", "insufficient_operands_for_assignment")
        ELSE IF ns[n - 1].type # "variable"
          THEN Throw(f, "runtime_error", "illegal_target_for_assignment")
        ELSE IF operatorType = "assign"
          THEN [f EXCEPT !.nodeStack =
                  Append(Drop(ns, 2), Node("assign", <<ns[n]>>))]
        ELSE [f EXCEPT !.nodeStack =
                Append(Drop(ns, 2), Node(operatorType, <<ns[n - 1], ns[n]>>))]
      ELSE
        IF n < 2
          THEN Throw(f, "logic_error", "insufficient_operands_for_infix")
        ELSE [f EXCEPT !.nodeStack =
                Append(Drop(ns, 2), Node(operatorType, <<ns[n - 1], ns[n]>>))]

\* applyOperator(operatorStack.top()); operatorStack.pop();
ApplyTop(f) ==
  LET g == ApplyOperator(f, Top(f.operatorStack))
  IN  IF Running(g) THEN [g EXCEPT !.operatorStack = Drop(@, 1)] ELSE g

\* while ( !operatorStack.empty() ) { apply and pop }
RECURSIVE Flush(_)
Flush(f) ==
  IF Running(f) /\ f.operatorStack # <<>> THEN Flush(ApplyTop(f)) ELSE f

\* a loop that stops at an operator of the same precedence
AppliesBefore_Strict(top, operatorType) ==
  precedences(top) < precedences(operatorType) /\ top # "_then_"

\* a loop that does not stop at _then_
AppliesBefore_NoBarrier(top, operatorType) ==
  precedences(top) <= precedences(operatorType)

\* a loop that does not compare the precedences
AppliesBefore_Always(top, operatorType) == top # "_then_"

\* the condition of the loop that applies the operators on the stack
\* before an infix operator is pushed
AppliesBefore(top, operatorType) ==
  precedences(top) <= precedences(operatorType) /\ top # "_then_"

RECURSIVE ApplyPrior(_, _)
ApplyPrior(f, operatorType) ==
  IF /\ Running(f)
     /\ f.operatorStack # <<>>
     /\ AppliesBefore(Top(f.operatorStack), operatorType)
  THEN ApplyPrior(ApplyTop(f), operatorType)
  ELSE f

\* the state of a construction under way: the frames and the members of
\* the expression that buildTree writes
Builder(fs, vs, cs, tg) ==
  [frames |-> fs, variables |-> vs, collections |-> cs, target |-> tg,
   root |-> <<>>, status |-> "run", what |-> "none"]

\* the token at place k (0-based) of the token list of frame f
Tok(toks, f, k) == toks[f.toks[k + 1]]

\* apply postfix and prefix operators to the node made for token i and
\* push it
PushOperand(toks, f, node) ==
  LET n1 == IF f.i + 1 < Len(f.toks) /\ Tok(toks, f, f.i + 1).category = "POSTFIX"
              THEN Node(postfixTypes(Tok(toks, f, f.i + 1).value), <<node>>)
              ELSE node
      n2 == IF f.i > 0 /\ Tok(toks, f, f.i - 1).category = "PREFIX"
              THEN Node(prefixTypes(Tok(toks, f, f.i - 1).value), <<n1>>)
              ELSE n1
  IN  [f EXCEPT !.nodeStack = Append(@, n2), !.i = @ + 1]

\* whether the token starts a recursive call of buildTree
IsNested(tk) ==
  \/ tk.type = "GROUP" /\ tk.category \in {"PREFIX", "INFIX"}
  \/ /\ tk.category = "OPERAND"
     /\ tk.type \in {"GROUP", "SET", "SEQUENCE", "FUNCTION_CALL",
                     "AGGREGATION", "INDEXED_VARIABLE"}

\* the infix operator branch of the loop
InfixOperator(toks, b, f, tk) ==
  LET operatorType == infixTypes(tk.value)
      isAssignment == TypeOrd(operatorType) >= TypeOrd("assign")
      b1 == IF ~isAssignment THEN b
            ELSE [b EXCEPT !.variables = IF operatorType = "assign" THEN <<>> ELSE @,
                           !.target = <<Tok(toks, f, 0).value>>]
      g == ApplyPrior(f, operatorType)
      h == IF Running(g)
             THEN [g EXCEPT !.operatorStack = Append(@, operatorType), !.i = @ + 1]
             ELSE g
  IN  IF isAssignment /\ f.i # 1
        THEN [b EXCEPT !.status = "runtime_error",
                       !.what = "assignment_not_in_second_place"]
      ELSE [b1 EXCEPT !.frames = Append(Drop(@, 1), h),
                      !.status = h.status, !.what = h.what]

\* the separator branch of the loop
Separator(b, f) ==
  LET g == Flush(f)
  IN  IF ~Running(g)
        THEN [b EXCEPT !.status = g.status, !.what = g.what]
      ELSE IF Len(g.nodeStack) # 1
        THEN [b EXCEPT !.status = "runtime_error", !.what = "unmatched"]
      ELSE [b EXCEPT !.frames =
              Append(Drop(@, 1),
                     [g EXCEPT !.operands = Append(@, Top(g.nodeStack)),
                               !.nodeStack = <<>>, !.i = @ + 1])]

\* one pass of the loop for a token that needs no recursive call
TokenStep(toks, b) ==
  LET f == Top(b.frames)
      tk == Tok(toks, f, f.i)
      replace(g) == [b EXCEPT !.frames = Append(Drop(@, 1), g)]
  IN  IF tk.category = "OPERAND" THEN
        CASE tk.type = "NUMBER" ->
               LET v == stod(tk.value)
               IN  IF v.status # "ok"
                     THEN [b EXCEPT !.status = "logic_error", !.what = "stod"]
                   ELSE replace(PushOperand(toks, f, LiteralNode(v.value)))
          [] tk.type = "VARIABLE" ->
               LET r == getIndex(b.variables, tk.value)
               IN  [replace(PushOperand(toks, f,
                              Node("variable", <<SizeOperand(r.index)>>)))
                      EXCEPT !.variables = r.container]
          [] tk.type = "COLLECTION" ->
               LET r == getIndex(b.collections, tk.value)
               IN  [replace(PushOperand(toks, f,
                              Node("collection", <<SizeOperand(r.index)>>)))
                      EXCEPT !.collections = r.container]
          [] OTHER ->
               [b EXCEPT !.status = "logic_error", !.what = "unexpected_token_type"]
      ELSE IF tk.type = "SEPARATOR" THEN Separator(b, f)
      ELSE IF tk.category = "INFIX" THEN InfixOperator(toks, b, f, tk)
      ELSE replace([f EXCEPT !.i = @ + 1])

\* a token that makes buildTree call itself: the arguments are evaluated
\* (the callable or the collection is looked up) and the callee starts
CallStep(toks, nms, b) ==
  LET f == Top(b.frames)
      tk == Tok(toks, f, f.i)
      call(type, index) == [b EXCEPT !.frames = Append(@, Frame(type, tk.children, index))]
  IN  IF tk.category = "PREFIX" THEN call("if_", <<>>)
      ELSE IF tk.category = "INFIX" THEN call("_then_", <<>>)
      ELSE
        CASE tk.type = "GROUP" -> call("group", <<>>)
          [] tk.type = "SET" -> call("set", <<>>)
          [] tk.type = "SEQUENCE" -> call("sequence", <<>>)
          [] tk.type \in {"FUNCTION_CALL", "AGGREGATION"} ->
               LET k == HandleGetIndex(nms, tk.value)
               IN  IF k < 0
                     THEN [b EXCEPT !.status = "logic_error", !.what = "unknown_callable"]
                   ELSE call(IF tk.type = "FUNCTION_CALL" THEN "function_call"
                             ELSE "aggregation", <<k>>)
          [] tk.type = "INDEXED_VARIABLE" ->
               LET r == getIndex(b.collections, tk.value)
               IN  [call("index", <<r.index>>) EXCEPT !.collections = r.container]

\* a ternary that applied the operators before it, like an infix operator
InfixGroup_Applying(c, node) ==
  LET g == ApplyPrior(c, "_then_")
  IN  [g EXCEPT !.nodeStack = Append(@, node),
                !.operatorStack = Append(@, "_then_"), !.i = @ + 1]

\* the infix GROUP branch of the loop, after the recursive call: the node
\* of the group is pushed and _then_ is pushed, no operator is applied
InfixGroup(c, node) ==
  [c EXCEPT !.nodeStack = Append(@, node),
            !.operatorStack = Append(@, "_then_"), !.i = @ + 1]

\* the end of buildTree: the operators left are applied, the node is made
\* and returned to the caller, which takes it as the node of its token i
ReturnStep(toks, b) ==
  LET f == Flush(Top(b.frames))
      node == Node(f.type, Append(f.operands, Top(f.nodeStack)))
      callers == Drop(b.frames, 1)
      c == Top(callers)
      tk == Tok(toks, c, c.i)
      resumed ==
        IF tk.category = "PREFIX"
          THEN [c EXCEPT !.nodeStack = Append(@, node), !.i = @ + 1]
        ELSE IF tk.category = "INFIX" THEN InfixGroup(c, node)
        ELSE PushOperand(toks, c, node)
  IN  IF ~Running(f) THEN [b EXCEPT !.status = f.status, !.what = f.what]
      ELSE IF Len(f.nodeStack) # 1
        THEN [b EXCEPT !.status = "logic_error", !.what = "unmatched"]
      ELSE IF callers = <<>> THEN [b EXCEPT !.frames = <<>>, !.root = <<node>>]
      ELSE [b EXCEPT !.frames = Append(Drop(callers, 1), resumed)]

(***************************************************************************)
(* Evaluator.  env holds the arguments of evaluate (variableValues,        *)
(* collectionValues) and what a node reaches through its expression        *)
(* pointer (the collection names, the handle).                             *)
(***************************************************************************)
Env(vv, cv, cs, nms, impls) ==
  [variableValues |-> vv, collectionValues |-> cv, collections |-> cs,
   names |-> nms, implementations |-> impls]

\* (size_t)value - 1 >= size, with an unsigned value: the conversion of a
\* double below -1, of an infinity or of NaN to size_t is undefined
IndexOf(v, size) ==
  IF v.d = 0 \/ (v.n < 0 /\ -v.n >= v.d) THEN Fail("ub")
  ELSE LET k == IF v.n < 0 THEN 0 ELSE v.n \div v.d
       IN  IF k = 0 \/ k - 1 >= size THEN Fail("runtime_error") ELSE Ok(Num(k - 1))

UnaryTypes == {"negate", "logical_not", "square", "cube"}

BinaryTypes ==
  {"logical_and", "logical_or", "add", "subtract", "multiply", "divide",
   "less_than", "less_or_equal", "greater_than", "greater_or_equal",
   "equal_to", "not_equal_to", "add_assign", "subtract_assign",
   "multiply_assign", "divide_assign"}

UnaryResult(t, a) ==
  CASE t = "negate" -> Neg(a)
    [] t = "logical_not" -> Bool(~Truthy(a))
    [] t = "square" -> Mul(a, a)
    [] t = "cube" -> Mul(Mul(a, a), a)

\* right == 0 of the division
IsZero(a) == a.n = 0 /\ a.d # 0

BinaryResult(t, left, right) ==
  CASE t = "logical_and" -> Ok(Bool(Truthy(left) /\ Truthy(right)))
    [] t = "logical_or" -> Ok(Bool(Truthy(left) \/ Truthy(right)))
    [] t = "add" -> Ok(Add(left, right))
    [] t = "subtract" -> Ok(Sub(left, right))
    [] t = "multiply" -> Ok(Mul(left, right))
    [] t = "divide" ->
         IF IsZero(right) THEN Fail("runtime_error") ELSE Ok(Div(left, right))
    [] t = "less_than" -> Ok(Bool(Less(left, right)))
    [] t = "less_or_equal" -> Ok(Bool(LessEq(left, right)))
    [] t = "greater_than" -> Ok(Bool(Less(right, left)))
    [] t = "greater_or_equal" -> Ok(Bool(LessEq(right, left)))
    [] t = "equal_to" -> Ok(Bool(Equal(left, right)))
    [] t = "not_equal_to" -> Ok(Bool(~Equal(left, right)))
    [] t = "add_assign" -> Ok(Add(left, right))
    [] t = "subtract_assign" -> Ok(Sub(left, right))
    [] t = "multiply_assign" -> Ok(Mul(left, right))
    [] t = "divide_assign" -> Ok(Div(left, right))

\* implementations[index](arguments), after the check of index
CallBuiltin(env, index, arguments) ==
  IF index >= Len(env.names) THEN Fail("runtime_error")
  ELSE CallImplementation(env.implementations[index + 1], arguments)

RECURSIVE Evaluate(_, _)
RECURSIVE EvaluateAll(_, _, _, _)

\* evaluate the operands from place k on, left to right, as nodes
\* the operands of a ternary evaluated lazily: the condition and then the
\* selected part alone
RECURSIVE EvaluateAll_Lazy(_, _, _, _)
EvaluateAll_Lazy(ops, k, env, acc) ==
  IF k > Len(ops) THEN [status |-> "ok", arguments |-> acc]
  ELSE IF ~HoldsNode(ops[k])
    THEN [status |-> "bad_variant_access", arguments |-> <<>>]
  ELSE IF Len(ops) = 3 /\ k # 1 /\ Len(acc) = k - 1 /\ Truthy(acc[1]) # (k = 2)
    THEN EvaluateAll_Lazy(ops, k + 1, env, Append(acc, Num(0)))
  ELSE LET r == Evaluate(ops[k], env)
       IN  IF r.status # "ok" THEN [status |-> r.status, arguments |-> <<>>]
           ELSE EvaluateAll_Lazy(ops, k + 1, env, Append(acc, r.value))

EvaluateAll(ops, k, env, acc) ==
  IF k > Len(ops) THEN [status |-> "ok", arguments |-> acc]
  ELSE IF ~HoldsNode(ops[k])
    THEN [status |-> "bad_variant_access", arguments |-> <<>>]
  ELSE LET r == Evaluate(ops[k], env)
       IN  IF r.status # "ok" THEN [status |-> r.status, arguments |-> <<>>]
           ELSE EvaluateAll(ops, k + 1, env, Append(acc, r.value))

\* Node::evaluate
Evaluate(node, env) ==
  LET ops == node.operands
      t == node.type
  IN  CASE t = "group" -> Evaluate(ops[1], env)
        [] t \in {"set", "sequence", "collection"} -> Fail("runtime_error")
        [] t = "literal" -> Ok(ops[1].value)
        [] t = "variable" ->
             IF ops[1].value.n < Len(env.variableValues)
               THEN Ok(env.variableValues[ops[1].value.n + 1])
             ELSE Fail("ub")
        [] t \in UnaryTypes ->
             LET a == Evaluate(ops[1], env)
             IN  IF a.status # "ok" THEN a ELSE Ok(UnaryResult(t, a.value))
        [] t \in BinaryTypes ->
             LET left == Evaluate(ops[1], env)
                 right == Evaluate(ops[2], env)
             IN  IF left.status # "ok" THEN left
                 ELSE IF right.status # "ok" THEN right
                 ELSE BinaryResult(t, left.value, right.value)
        [] t = "exponentiate" ->
             IF POW >= Len(env.names) THEN Fail("runtime_error")
             ELSE LET a == EvaluateAll(ops, 1, env, <<>>)
                  IN  IF a.status # "ok" THEN Fail(a.status)
                      ELSE CallBuiltin(env, POW, a.arguments)
        [] t \in {"function_call", "aggregation"} ->
             LET index == ops[1].value.n
             IN  IF index >= Len(env.names) THEN Fail("runtime_error")
                 ELSE IF index = AT THEN Fail("logic_error")
                 ELSE IF Len(ops) = 2 /\ ops[2].type = "collection"
                   THEN LET c == ops[2].operands[1].value.n
                        IN  IF c >= Len(env.collectionValues) THEN Fail("ub")
                            ELSE CallBuiltin(env, index, env.collectionValues[c + 1])
                 ELSE LET a == EvaluateAll(ops, 2, env, <<>>)
                      IN  IF a.status # "ok" THEN Fail(a.status)
                          ELSE CallBuiltin(env, index, a.arguments)
        [] t = "index" ->
             LET c == ops[1].value.n
                 size == Len(env.collectionValues[c + 1])
                 v == IF ops[2].type = "literal" THEN Ok(ops[2].operands[1].value)
                      ELSE Evaluate(ops[2], env)
                 k == IndexOf(v.value, size)
             IN  IF c >= Len(env.collections) THEN Fail("runtime_error")
                 ELSE IF c >= Len(env.collectionValues) THEN Fail("runtime_error")
                 ELSE IF ~HoldsNode(ops[2]) THEN Fail("logic_error")
                 ELSE IF v.status # "ok" THEN v
                 ELSE IF k.status # "ok" THEN k
                 ELSE Ok(env.collectionValues[c + 1][k.value.n + 1])
        [] t \in {"element_of", "not_element_of"} ->
             LET index == IF t = "element_of" THEN ELEMENT_OF ELSE NOT_ELEMENT_OF
                 probe == Evaluate(ops[1], env)
                 a == EvaluateAll(ops[2].operands, 1, env, <<probe.value>>)
             IN  IF index >= Len(env.names) THEN Fail("runtime_error")
                 ELSE IF probe.status # "ok" THEN probe
                 ELSE IF a.status # "ok" THEN Fail(a.status)
                 ELSE CallBuiltin(env, index, a.arguments)
        [] t = "if_then_else" ->
             IF IF_THEN_ELSE >= Len(env.names) THEN Fail("runtime_error")
             ELSE LET a == EvaluateAll(ops, 1, env, <<>>)
                  IN  IF a.status # "ok" THEN Fail(a.status)
                      ELSE CallBuiltin(env, IF_THEN_ELSE, a.arguments)
        [] t = "assign" -> Evaluate(ops[1], env)
        [] OTHER -> Fail("runtime_error")

(***************************************************************************)
(* Inputs of the constructor.                                              *)
(***************************************************************************)
Lit(k) == <<DigitChar[k + 1]>>

Sp(op) == <<" ">> \o op \o <<" ">>

\* an operator as it is written between two operands: a word needs spaces
Spell(op) == IF op[1] \in Letters THEN Sp(op) ELSE op

LitRange == 0..MaxLit

\* the infix operators of the four precedence levels of binary operators
ArithmeticOps == { <<"+">>, <<"-">>, <<"*">>, <<"/">> }

PowerOps == { <<"^">> }

LogicalOps ==
  { <<"&", "&">>, <<"u_and">>, <<"a", "n", "d">>,
    <<"|", "|">>, <<"u_or">>, <<"o", "r">> }

ComparisonOps ==
  { <<"=", "=">>, <<"!", "=">>, <<"<", "=">>, <<">", "=">>, <<"<">>, <<">">>,
    <<"u_ne">>, <<"u_le">>, <<"u_ge">> }

MembershipOps ==
  { <<"i", "n">>, <<"n", "o", "t", " ", "i", "n">>, <<"u_in">>, <<"u_notin">> }

BinaryOps ==
  ArithmeticOps \cup PowerOps \cup LogicalOps \cup ComparisonOps \cup MembershipOps

AssignOps == { <<":", "=">>, <<"u_assign">> }

CompoundOps == { <<"+", "=">>, <<"-", "=">>, <<"*", "=">>, <<"/", "=">> }

PrefixOps == { <<"-">>, <<"!">>, <<"u_not">> }

Prec(op) == precedences(infixTypes(op))

\* x o1 y o2 z
Chain(x, o1, y, o2, z) == x \o Spell(o1) \o y \o Spell(o2) \o z

\* a op1 b op2 c on the variables a, b, c, both operators of one level
SameLevelInputs ==
  { Chain(<<"a">>, o1, <<"b">>, o2, <<"c">>) :
      <<o1, o2>> \in { q \in ArithmeticOps \X ArithmeticOps : Prec(q[1]) = Prec(q[2]) } }

\* a ^ b ^ c on literals
PowerInputs ==
  { Chain(Lit(a), <<"^">>, Lit(b), <<"^">>, Lit(c)) : <<a, b, c>> \in LitRange \X LitRange \X LitRange }

\* 1 op1 2 op2 3, the operators of two levels
MixedLevelInputs ==
  { Chain(<<"1">>, q[1], <<"2">>, q[2], <<"3">>) :
      q \in { r \in BinaryOps \X BinaryOps : Prec(r[1]) # Prec(r[2]) } }

QuestionForm(a, x, b, y, z) ==
  a \o <<" ", "?", " ">> \o x \o <<" ", ":", " ">> \o b \o <<" ", "?", " ">>
    \o y \o <<" ", ":", " ">> \o z

WordForm(a, x, b, y, z) ==
  <<"i", "f", " ">> \o a \o <<" ", "t", "h", "e", "n", " ">> \o x
    \o <<" ", "e", "l", "s", "e", " ", "i", "f", " ">> \o b
    \o <<" ", "t", "h", "e", "n", " ">> \o y
    \o <<" ", "e", "l", "s", "e", " ">> \o z

\* the chained ternary on the variables a, b and the variables or
\* literals x, y, z
TernaryBranches ==
  { <<Lit(1), Lit(2), Lit(0)>>, << <<"a">>, <<"b">>, Lit(2)>> }

TernaryInputs ==
  { QuestionForm(<<"a">>, q[1], <<"b">>, q[2], q[3]) : q \in TernaryBranches }
  \cup { WordForm(<<"a">>, q[1], <<"b">>, q[2], q[3]) : q \in TernaryBranches }

\* -a^b, !a^b
PrefixPowerInputs ==
  { o \o <<"a", "^", "b">> : o \in PrefixOps } \cup { <<"-", "2", "^", "2">> }

\* p op c ? 1 : 2
OperatorThenTernary(p, op, c, a, b) ==
  p \o Spell(op) \o c \o <<" ", "?", " ">> \o a \o <<" ", ":", " ">> \o b

TernaryOperandOps == ArithmeticOps \cup LogicalOps \cup ComparisonOps

TernaryOperandInputs ==
  { OperatorThenTernary(<<"p">>, op, <<"c">>, Lit(1), Lit(2)) : op \in TernaryOperandOps }
  \cup { <<"3", " ", "+", " ", "f", "a", "l", "s", "e", " ", "?", " ", "4",
           " ", ":", " ", "-", "1">>,
         <<"1", ">", "0", " ", "?", " ", "1", " ", ":", " ", "2">> }

\* 3 <= x < y
ComparisonChainInputs ==
  { <<"3", " ", "<", "=", " ", "x", " ", "<", " ", "y">> }

\* the right-hand sides of the assignments to x
RightHandSides ==
  { <<"3">>, <<"y">>, <<"x">>, <<"3", " ", "+", " ", "2">>,
    <<"x", " ", "+", " ", "1">>, <<"y", " ", "*", " ", "x">>,
    <<"2", " ", "*", " ", "y">>, <<"y", " ", "?", " ", "1", " ", ":", " ", "2">>,
    <<"(", "y", " ", ":", "=", " ", "2", ")">>,
    <<"(", "w", " ", "+", "=", " ", "1", ")">>,
    <<"y", " ", "+", " ", "(", "w", " ", ":", "=", " ", "1", ")">> }

Assignment(v, op, rhs) == v \o Sp(op) \o rhs

AssignInputs ==
  { Assignment(<<"x">>, op, rhs) : <<op, rhs>> \in AssignOps \X RightHandSides }

CompoundInputs ==
  { Assignment(<<"x">>, op, rhs) : <<op, rhs>> \in CompoundOps \X RightHandSides }
  \cup { <<"z", " ", "-", "=", " ", "u_sqrt", "(", "x", "u_sq", "+", "y", "u_sq", ")">> }

\* assignments that are not the whole expression
InnerAssignInputs ==
  { <<"(", "x", " ", ":", "=", " ", "3", ")", " ", "+", " ", "1">>,
    <<"(", "x", " ", ":", "=", " ", "3", ")">>,
    <<"(", "x", " ", "+", "=", " ", "3", ")">>,
    <<"a", " ", "+", " ", "(", "b", " ", ":", "=", " ", "c", ")">>,
    <<"x", " ", ":", "=", " ", "y", " ", ":", "=", " ", "3">>,
    <<"3", " ", ":", "=", " ", "4">>,
    <<"x", " ", ":", "=", " ">>,
    <<"x", " ", "+", " ", "1">> }

\* expressions without a plain assignment whose variables recur, in
\* brackets, call arguments, ternary parts and a compound assignment
VariableOrderInputs ==
  { <<"b", " ", "+", " ", "a", " ", "*", " ", "b">>,
    <<"(", "c", " ", "-", " ", "a", ")", " ", "*", " ", "b", " ", "-", " ", "c">>,
    <<"m", "a", "x", "(", "b", ",", " ", "a", ")", " ", "-", " ", "a">>,
    <<"a", " ", "?", " ", "c", " ", ":", " ", "b">>,
    <<"i", "f", " ", "b", " ", "t", "h", "e", "n", " ", "a", " ", "e", "l", "s", "e",
        " ", "b">>,
    <<"y", " ", "+", "=", " ", "x", " ", "*", " ", "y">>,
    <<"a", "b", "s", "(", "a", " ", "-", " ", "b", ")", " ", "+", " ", "a", "u_sq">>,
    <<"x", " ", "-", " ", "y", " ", "+", " ", "z">> }

\* what follows a word without a space
WordSuffixes == { <<"x">>, <<"1">>, <<"_">> }

\* the words that are recognised in operand position and in infix position
OperandWords == { <<"i", "f">>, <<"t", "h", "e", "n">>, <<"e", "l", "s", "e">>, <<"t",
    "r", "u", "e">>, <<"f", "a", "l", "s", "e">> }

InfixWords == { <<"a", "n", "d">>, <<"o", "r">>, <<"i", "n">>, <<"n", "o", "t", " ",
    "i", "n">> }

\* identifiers that begin with a word of the language
WordPrefixedNames ==
  { w \o s : <<w, s>> \in ((OperandWords \cup InfixWords) \ { <<"n", "o", "t", " ", "i",
      "n">> }) \X WordSuffixes }
  \cup { <<"o", "r", "a", "n", "g", "e">>, <<"i", "n", "d", "i", "a">>, <<"a", "n",
      "d", "r", "e", "w">>, <<"i", "f", "x">>, <<"t", "r", "u", "e", "x">> }

\* a word b and a wordb: an infix word before a space and before a
\* letter, digit or underscore
InfixWordInputs ==
  { <<"a", " ">> \o w \o <<" ", "b">> : w \in InfixWords }
  \cup { <<"a", " ">> \o w \o s : <<w, s>> \in InfixWords \X WordSuffixes }

\* the words of the ternary with and without a space after them
TernaryWordInputs ==
  { <<"i", "f", " ", "a", " ", "t", "h", "e", "n", " ", "b", " ", "e", "l", "s", "e",
      " ", "c">>, <<"i", "f", " ", "a", " ", "t", "h", "e", "n", "x", " ", "e", "l",
      "s", "e", " ", "c">>, <<"i", "f", " ", "a", " ", "t", "h", "e", "n", " ", "b",
      " ", "e", "l", "s", "e", "x">>,
    <<"i", "f", " ", "a", " ", "t", "h", "e", "n", " ", "t", "h", "e", "n", "x", " ",
        "e", "l", "s", "e", " ", "e", "l", "s", "e", "x">>, <<"t", "r", "u", "e", "x",
        " ", "+", " ", "t", "r", "u", "e">> }

\* probe op {a1, ..., aN}: the elements separated by a comma and a space
RECURSIVE Listed(_, _)
Listed(elements, k) ==
  IF k = Len(elements) THEN elements[k]
  ELSE elements[k] \o <<",", " ">> \o Listed(elements, k + 1)

MembershipInput(probe, op, elements) ==
  probe \o Sp(op) \o <<"{">> \o Listed(elements, 1) \o <<"}">>

\* a probe and a non-empty list of elements, each a digit or a variable
MembershipCases ==
  { [probe |-> <<"a">>, elements |-> << <<"b">> >>],
    [probe |-> <<"a">>, elements |-> << <<"1">>, <<"b">> >>],
    [probe |-> <<"a">>, elements |-> << <<"b">>, <<"2">>, <<"0">> >>],
    [probe |-> <<"a">>, elements |-> << <<"1">>, <<"2">>, <<"3">> >>],
    [probe |-> <<"a">>, elements |-> << <<"b">>, <<"a">> >>],
    [probe |-> <<"a">>, elements |-> << <<"b">>, <<"c">> >>],
    [probe |-> <<"2">>, elements |-> << <<"1">>, <<"2">>, <<"3">> >>],
    [probe |-> <<"4">>, elements |-> << <<"1">>, <<"2">>, <<"3">> >>],
    [probe |-> <<"2">>, elements |-> << <<"b">> >>],
    [probe |-> <<"2">>, elements |-> << <<"2">> >>] }

MembershipInputs ==
  { MembershipInput(m.probe, op, m.elements) :
      <<m, op>> \in MembershipCases \X MembershipOps }
  \cup { <<"a", " ", "i", "n", " ", "{", "b", " ", "+", " ", "1", ",", " ", "2", " ",
           "*", " ", "b", "}">>,
         <<"a", " ", "+", " ", "1", " ", "u_notin", " ", "{", "b", ",", " ", "(", "2",
           ")", "}">> }

\* x[k] for the index written as a literal and as a computed value
IndexInputs ==
  { <<"x", "[">> \o Lit(k) \o <<"]">> : k \in 0..4 }
  \cup { <<"x", "[", "a", "]">>, <<"x", "[", "a", " ", "+", " ", "1", "]">>, <<"x",
      "[", "a", " ", "-", " ", "2", "]">>, <<"x", "[", "a", " ", "/", " ", "2", "]">>,
      <<"x", "[", "5", "-", "2", "]">>,
         <<"y", " ", "+", " ", "x", "[", "5", "-", "2", "]">>, <<"x", "[", "(", "2",
             ")", "]">> }

\* divisions written with / and with /=
SlashInputs == { <<"a", " ", "/", " ", "b">>, <<"a", " ", "/", " ", "0">>, <<"1", " ",
    "/", " ", "(", "a", " ", "-", " ", "b", ")">>, <<"a", " ", "/", " ", "b", " ", "/",
    " ", "2">> }

SlashAssignInputs == { <<"x", " ", "/", "=", " ", "y">>, <<"x", " ", "/", "=", " ",
    "0">>, <<"x", " ", "/", "=", " ", "y", " ", "-", " ", "1">> }

DivisionInputs == SlashInputs \cup SlashAssignInputs

\* ternaries with a division by b in the then part and in the else part
FailingThenInputs == { <<"a", " ", "?", " ", "1", " ", "/", " ", "b", " ", ":", " ",
    "2">>, <<"i", "f", " ", "a", " ", "t", "h", "e", "n", " ", "1", " ", "/", " ", "b",
    " ", "e", "l", "s", "e", " ", "2">> }

FailingElseInputs == { <<"a", " ", "?", " ", "2", " ", ":", " ", "1", " ", "/", " ",
    "b">>, <<"i", "f", " ", "a", " ", "t", "h", "e", "n", " ", "2", " ", "e", "l", "s",
    "e", " ", "1", " ", "/", " ", "b">> }

EagerInputs == FailingThenInputs \cup FailingElseInputs

\* calls of callables that are no built-ins, and of built-ins
CallableInputs ==
  { <<"f", "(", "1", ")">>, <<"g", "{", "a", ",", " ", "2", "}">>,
    <<"f", "(", "2", ")", " ", "+", " ", "g", "(", "1", ",", " ", "1", ")">>,
    <<"1", " ", "+", " ", "h", "(", "2", ")">>,
    <<"s", "u", "m", "(", "1", ",", " ", "a", ")">>,
    <<"c", "o", "u", "n", "t", "{", "1", ",", " ", "2", "}">>,
    <<"f", "[", "]">>, <<"g", "{", "x", "[", "]", "}">>,
    <<"f", "(", "2", ")", " ", "^", " ", "2">>,
    <<"i", "f", " ", "a", " ", "i", "n", " ", "{", "f", "(", "1", ")", "}", " ", "t",
      "h", "e", "n", " ", "3", " ", "e", "l", "s", "e", " ", "4">> }

\* the names Handle::add is called with: two new names and two names of
\* built-ins
AddedNames == { <<"f">>, <<"g">>, <<"s", "u", "m">>, <<"i", "f", "_", "t", "h", "e",
    "n", "_", "e", "l", "s", "e">> }

\* the implementations Handle::add is called with: lambdas that compute
\* what the built-ins count and sum compute
AddedImplementations == {"count", "sum"}

\* inputs that end while a group is open
UnclosedInputs ==
  { <<"(", "1">>, <<"(", "(", "1", ")">>, <<"{", "1", ",", " ", "2">>,
    <<"x", "[", "1">>, <<"m", "a", "x", "(", "1", ",", " ", "2">>,
    <<"s", "u", "m", "{", "1">>, <<"u_sqrt", "(", "4">>,
    <<"m", "a", "x", "(", "1", ",", " ", "(", "2", ")">>,
    <<"m", "a", "x", "(", "1", ",", " ", "(", "2">>, <<"i", "f", " ", "a">>,
    <<"i", "f", " ", "a", " ", "t", "h", "e", "n", " ", "b">>,
    <<"a", " ", "?", " ", "b">>,
    <<"a", " ", "?", " ", "(", "b", " ", ":", " ", "c", ")">>,
    <<"(", "a", " ", "?", " ", "b", " ", ":", " ", "c">>, <<"(", "1", " ", "+", " ">>,
    <<"a", "b", "s", "(">> }

\* inputs that close a group with the terminator of another group
MisclosedInputs ==
  { <<"(", "1", "]">>, <<"{", "1", ")">>, <<"x", "[", "1", ")">>,
    <<"m", "a", "x", "(", "1", "}">>, <<"s", "u", "m", "{", "1", ")">>,
    <<"(", "(", "1", "}", ")">>,
    <<"(", "a", " ", "?", " ", "b", ")", " ", ":", " ", "c">>,
    <<"i", "f", " ", "(", "a", " ", "t", "h", "e", "n", " ", "b", ")", " ", "e", "l", "s", "e", " ", "c">>,
    <<"1", ")">>, <<"(", "1", ")", ")">> }

\* inputs that close every group they open
ClosedInputs ==
  { <<"(", "(", "1", ")", ")">>, <<"{", "1", ",", " ", "2", "}">>, <<"x", "[", "(",
      "1", ")", "]">>, <<"m", "a", "x", "(", "1", ",", " ", "(", "2", ")", ")">>,
      <<"s", "u", "m", "{", "(", "1", ")", ",", " ", "a", "b", "s", "(", "a", ")",
      "}">>,
    <<"u_sqrt", "(", "(", "4", ")", ")">>, <<"(", "a", " ", "?",
        " ", "(", "b", ")", " ", ":", " ", "c", ")">>, <<"i", "f", " ", "(", "a", ")",
        " ", "t", "h", "e", "n", " ", "(", "b", ")", " ", "e", "l", "s", "e", " ", "(",
        "c", ")">>,
    <<"a", " ", "?", " ", "i", "f", " ", "b", " ", "t", "h", "e", "n", " ", "1", " ",
        "e", "l", "s", "e", " ", "2", " ", ":", " ", "(", "3", ")">> }

\* inputs that hold the terminator of the root group
SentinelInputs ==
  { <<"1", "#">>, <<"(", "1", ")", "#">>, <<"(", "1", "#", ")">>,
    <<"1", "#", "2">>, <<"1", "#", "+", "2">>, <<"a", "#", "(">>,
    <<"1", "#", "#">>, <<"1", " ", "#", " ", ")">>, <<"#">>, <<"1", " ", "+", " ", "#">>,
    <<"(", "1", ")", "#", "#">>, <<"c", "[", "]", "#", "1">> }

GroupInputs == UnclosedInputs \cup MisclosedInputs \cup ClosedInputs \cup SentinelInputs

\* malformed inputs: an infix operator without an operand, malformed
\* ternaries, trailing separators, a lexeme that is no number
MalformedInputs ==
  { <<"1", " ", "+">>, <<"*", " ", "2">>, <<"1", " ", "+", " ", "*", " ", "2">>, <<"a",
      " ", "<">>, <<"a", " ", "a", "n", "d">>, <<"1", " ", "+", " ", "(", "2", " ",
      "*", ")">>,
    <<"a", " ", "?", " ", "b", " ", ":">>, <<"a", " ", ":", " ", "b">>, <<"a", " ",
        "?", " ", ":", " ", "b">>, <<"?", " ", "a", " ", ":", " ", "b">>, <<"i", "f",
        " ", "a", " ", "t", "h", "e", "n", " ", "b", " ", "e", "l", "s", "e">>,
    <<"i", "f", " ", "t", "h", "e", "n", " ", "b", " ", "e", "l", "s", "e", " ", "c">>,
        <<"a", " ", "?", " ", "b", " ", ":", " ", "c", " ", ":", " ", "d">>,
    <<"1", ",">>, <<"(", "1", ",", ")">>, <<"m", "a", "x", "(", "1", ",", ")">>, <<"s",
        "u", "m", "{", "1", ",", " ", "2", ",", "}">>, <<",">>,
    <<".">>, <<"1", " ", "+", " ", ".">>, <<"(", ")">>, <<"1", " ", "2">>, <<"a", " ",
        "b">> }

\* an assignment operator at a place other than directly after the first
\* token of the expression: in brackets, in call arguments, in the parts
\* of a ternary, after an operator
BracketedAssignInputs ==
  { <<"(", "x", " ", ":", "=", " ", "3", ")", " ", "+", " ", "1">>, <<"(", "x", " ",
      ":", "=", " ", "3", ")">>, <<"(", "x", " ", "+", "=", " ", "3", ")">>, <<"a",
      " ", "+", " ", "(", "b", " ", ":", "=", " ", "c", ")">>, <<"2", " ", "*", " ",
      "(", "x", " ", "-", "=", " ", "1", ")">>,
    <<"(", "x", " ", "*", "=", " ", "2", ")", " ", "+", " ", "(", "y", " ", "/", "=",
        " ", "2", ")">> }

ArgumentAssignInputs ==
  { <<"m", "a", "x", "(", "x", " ", ":", "=", " ", "1", ",", " ", "2", ")">>, <<"a",
      "b", "s", "(", "x", " ", "+", "=", " ", "1", ")">>, <<"m", "a", "x", "(", "1",
      ",", " ", "x", " ", ":", "=", " ", "2", ")">>, <<"s", "u", "m", "{", "x", " ",
      ":", "=", " ", "1", "}">> }

TernaryAssignInputs ==
  { <<"a", " ", "?", " ", "b", " ", ":", "=", " ", "1", " ", ":", " ", "c">>, <<"i",
      "f", " ", "a", " ", "t", "h", "e", "n", " ", "b", " ", "+", "=", " ", "1", " ",
      "e", "l", "s", "e", " ", "c">>, <<"i", "f", " ", "a", " ", ":", "=", " ", "1",
      " ", "t", "h", "e", "n", " ", "b", " ", "e", "l", "s", "e", " ", "c">>,
    <<"a", " ", "?", " ", "b", " ", ":", " ", "c", " ", ":", "=", " ", "1">> }

LateAssignInputs ==
  { <<"x", " ", ":", "=", " ", "y", " ", ":", "=", " ", "3">>, <<"1", " ", "+", " ",
      "x", " ", ":", "=", " ", "2">>, <<"a", " ", "*", " ", "b", " ", "+", "=", " ",
      "1">>, <<"-", "x", " ", ":", "=", " ", "2">> }

MisplacedAssignInputs ==
  BracketedAssignInputs \cup ArgumentAssignInputs \cup TernaryAssignInputs
    \cup LateAssignInputs

\* ternaries in operands, in conditions, in parts of ternaries and in call
\* arguments, and ternaries that lack a part
NestedTernaryInputs ==
  { <<"(", "i", "f", " ", "a", " ", "t", "h", "e", "n", " ", "1", " ", "e", "l", "s",
      "e", " ", "2", ")", " ", "?", " ", "3", " ", ":", " ", "4">>, <<"i", "f", " ",
      "i", "f", " ", "a", " ", "t", "h", "e", "n", " ", "0", " ", "e", "l", "s", "e",
      " ", "1", " ", "t", "h", "e", "n", " ", "2", " ", "e", "l", "s", "e", " ",
      "3">>,
    <<"a", " ", "?", " ", "b", " ", "?", " ", "1", " ", ":", " ", "2", " ", ":", " ",
        "3">>, <<"m", "a", "x", "(", "a", " ", "?", " ", "1", " ", ":", " ", "2", ",",
        " ", "i", "f", " ", "b", " ", "t", "h", "e", "n", " ", "3", " ", "e", "l", "s",
        "e", " ", "4", ")">>,
    <<"i", "f", " ", "a", " ", "t", "h", "e", "n", " ", "1", " ", "e", "l", "s", "e",
        " ", "b", " ", "?", " ", "2", " ", ":", " ", "3">>, <<"a", " ", "?", " ", "1",
        " ", ":", " ", "i", "f", " ", "b", " ", "t", "h", "e", "n", " ", "2", " ", "e",
        "l", "s", "e", " ", "3">>,
    <<"1", " ", "+", " ", "i", "f", " ", "a", " ", "t", "h", "e", "n", " ", "2", " ",
        "e", "l", "s", "e", " ", "3">>, <<"(", "a", " ", "?", " ", "1", " ", ":", " ",
        "2", ")", "u_sq">>, <<"!", "(", "a", " ", "?", " ", "0", " ", ":",
        " ", "1", ")">>,
    <<"-", "i", "f", " ", "a", " ", "t", "h", "e", "n", " ", "1", " ", "e", "l", "s",
        "e", " ", "2">>, <<"x", " ", ":", "=", " ", "a", " ", "?", " ", "1", " ", ":",
        " ", "2">>, <<"i", "f", " ", "a", " ", "t", "h", "e", "n", " ", "1", " ", "e",
        "l", "s", "e", " ", "2", ",", " ", "3">> }

LackingTernaryInputs ==
  { <<"x", " ", "+", " ", "a", " ", "?", " ", "b", " ", ":">>, <<"x", " ", "?", " ",
      "a", " ", ":", " ", "y", " ", "?", " ", "b", " ", ":">>, <<"x", " ", "+", " ",
      "i", "f", " ", "a", " ", "t", "h", "e", "n", " ", "b", " ", "e", "l", "s",
      "e">>,
    <<"i", "f", " ", "a", " ", "t", "h", "e", "n", " ", "e", "l", "s", "e", " ", "c">>,
        <<"i", "f", " ", "a", " ", "t", "h", "e", "n", " ", "b", " ", "+", " ", "e",
        "l", "s", "e", " ", "c">>, <<"i", "f", " ", "t", "h", "e", "n", " ", "e", "l",
        "s", "e">>,
    <<"a", " ", "?", " ", ":", " ">>, <<"1", " ", "+", " ", "e", "l", "s", "e">>,
        <<"t", "h", "e", "n">> }

TernaryShapeInputs == NestedTernaryInputs \cup LackingTernaryInputs

\* an empty-bracket collection followed by the end of the input or by the
\* terminator of the enclosing group
CollectionEndInputs ==
  { <<"c", "[", "]">>, <<"c", "[", "]", " ">>, <<"(", " ", "c", "[", "]", " ", ")">>,
      <<"s", "u", "m", "(", "c", "[", "]", ")">>, <<"m", "a", "x", "(", "1", ",", " ",
      "c", "[", "]", ")">>,
    <<"i", "f", " ", "c", "[", "]", " ", "t", "h", "e", "n", " ", "1", " ", "e", "l",
        "s", "e", " ", "2">>, <<"a", " ", "?", " ", "c", "[", "]", " ", ":", " ",
        "1">>, <<"a", " ", "?", " ", "1", " ", ":", " ", "c", "[", "]">>, <<"x", "[",
        "c", "[", "]", "]">>,
    <<"1", " ", "i", "n", " ", "c", "[", "]">>, <<"c", "o", "u", "n", "t", "(", "c",
        "[", "]", ")", " ", "+", " ", "1">>, <<"x", " ", ":", "=", " ", "c", "[",
        "]">> }

\* an empty-bracket collection followed by anything else
CollectionFollowedInputs ==
  { <<"c", "[", "]", " ", "1">>, <<"c", "[", "]", " ", "b">>, <<"c", "[", "]", " ",
      "+", " ", "1">>, <<"c", "[", "]", "u_sq">>, <<"c", "[", "]", " ", "(", "1",
      ")">>, <<"c", "[", "]", ",", " ", "1">>,
    <<"c", "[", "]", " ", "c", "[", "]">>, <<"s", "u", "m", "(", "c", "[", "]", " ",
        "1", ")">>, <<"m", "a", "x", "(", "c", "[", "]", ",", " ", "1", ")">>, <<"c",
        "[", "]", " ", "i", "n", " ", "{", "1", "}">>, <<"c", "[", "]", "[", "1",
        "]">>,
    <<"a", " ", "?", " ", "c", "[", "]", " ", "1", " ", ":", " ", "2">>, <<"c", "[",
        "]", " ", ":", "=", " ", "1">>, <<"c", "[", "]", " ", "t", "r", "u", "e">>,
        <<"c", "[", "]", " ", "-", "1">> }

\* two operands with nothing but blanks between them
AdjacentOperandInputs ==
  { <<"1", " ", "2">>, <<"a", " ", "b">>, <<"(", "1", ")", "(", "2", ")">>, <<"a", " ",
      "(", "1", ")">>, <<"t", "r", "u", "e", " ", "1">>, <<"1", " ", "t", "r", "u",
      "e">>, <<"(", "1", ")", " ", "a">>,
    <<"a", "[", "1", "]", " ", "2">>, <<"i", "f", " ", "a", " ", "t", "h", "e", "n",
        " ", "1", " ", "e", "l", "s", "e", " ", "2", " ", "3">>, <<"m", "a", "x", "(",
        "1", " ", "2", ")">>, <<"a", " ", "?", " ", "1", " ", "2", " ", ":", " ",
        "3">> }

CollectionInputs ==
  CollectionEndInputs \cup CollectionFollowedInputs \cup AdjacentOperandInputs

\* variables written before a plain assignment that is no assignment of
\* the root
StaleIndexInputs ==
  { <<"a", " ", "+", " ", "b", " ", "+", " ", "(", "c", " ", ":", "=", " ", "1", ")">>,
      <<"i", "f", " ", "a", " ", "t", "h", "e", "n", " ", "b", " ", ":", "=", " ", "1",
      " ", "e", "l", "s", "e", " ", "c">>, <<"x", " ", ":", "=", " ", "a", " ", "+",
      " ", "(", "y", " ", ":", "=", " ", "b", ")">>,
    <<"a", " ", "*", " ", "(", "b", " ", ":", "=", " ", "a", ")">>, <<"m", "a", "x",
        "(", "a", ",", " ", "(", "b", " ", ":", "=", " ", "c", ")", ")">>, <<"a", " ",
        "+", " ", "(", "b", " ", "u_assign", " ", "2", ")", " ", "+", " ", "a">> }

\* separators directly in the root, in brackets, and in the parts of a
\* ternary
SeparatedInputs ==
  { <<"1", ",", " ", "2">>, <<"(", "1", ",", " ", "2", ")">>, <<"x", " ", ":", "=",
      " ", "3", ",", " ", "4">>, <<"(", "1", ",", " ", "2", ")", " ", "+", " ", "3">>,
      <<"a", " ", "?", " ", "1", ",", " ", "2", " ", ":", " ", "3">>,
    <<"1", " ", "+", " ", "2", ",", " ", "3">>, <<"1", ",", " ", "2", ",", " ", "3">>,
        <<"a", ",", " ", "b">>, <<"i", "f", " ", "1", ",", " ", "2", " ", "t", "h",
        "e", "n", " ", "3", " ", "e", "l", "s", "e", " ", "4">>,
    <<"m", "a", "x", "(", "1", ",", " ", "2", ")">>, <<"(", "1", ")", ",", " ", "(",
        "2", ")">>, <<"2", " ", "*", " ", "(", "a", ",", " ", "b", ")">> }

\* prefix operators before operands of every kind
PrefixedInputs ==
  { <<"!", "i", "f", " ", "a", " ", "t", "h", "e", "n", " ", "1", " ", "e", "l", "s",
      "e", " ", "2">>, <<"u_not", "i", "f", " ", "a", " ", "t", "h", "e", "n", " ",
      "1", " ", "e", "l", "s", "e", " ", "2">>, <<"3", " ", "+", " ", "-", "i", "f",
      " ", "a", " ", "t", "h", "e", "n", " ", "1", " ", "e", "l", "s", "e", " ",
      "2">>,
    <<"-", "(", "i", "f", " ", "a", " ", "t", "h", "e", "n", " ", "1", " ", "e", "l",
        "s", "e", " ", "2", ")">>, <<"-", "a">>, <<"!", "a">>, <<"u_not", "a">>, <<"-",
        "(", "a", ")">>, <<"-", "a", "u_sq">>,
    <<"-", "m", "a", "x", "(", "a", ",", " ", "1", ")">>, <<"1", " ", "-", " ", "-",
        "a">>, <<"-", "a", " ", "?", " ", "1", " ", ":", " ", "2">>, <<"a", " ", "?",
        " ", "-", "1", " ", ":", " ", "!", "b">>, <<"-", "t", "r", "u", "e">>,
    <<"!", "f", "a", "l", "s", "e">>, <<"-", "2", "^", "2">>, <<"!", "(", "a", ")",
        " ", "+", " ", "-", "b">>, <<"i", "f", " ", "!", "a", " ", "t", "h", "e", "n",
        " ", "-", "1", " ", "e", "l", "s", "e", " ", "-", "2">>,
    <<"i", "f", " ", "-", "i", "f", " ", "a", " ", "t", "h", "e", "n", " ", "1", " ",
        "e", "l", "s", "e", " ", "0", " ", "t", "h", "e", "n", " ", "2", " ", "e", "l",
        "s", "e", " ", "3">>, <<"m", "a", "x", "(", "-", "a", ",", " ", "!", "b",
        ")">>, <<"-", " ", "-", "a">>, <<"!", "!", "a">> }

WordBoundaryInputs == WordPrefixedNames \cup InfixWordInputs \cup TernaryWordInputs

Inputs ==
  SameLevelInputs \cup PowerInputs \cup {<<"2", "^", "3", "^", "2">>}
    \cup MixedLevelInputs \cup TernaryInputs \cup PrefixPowerInputs
    \cup TernaryOperandInputs \cup ComparisonChainInputs
    \cup AssignInputs \cup CompoundInputs \cup InnerAssignInputs
    \cup VariableOrderInputs
    \cup WordBoundaryInputs
    \cup MembershipInputs
    \cup IndexInputs
    \cup DivisionInputs
    \cup EagerInputs
    \cup CallableInputs
    \cup GroupInputs
    \cup MalformedInputs
    \cup MisplacedAssignInputs
    \cup TernaryShapeInputs
    \cup CollectionInputs
    \cup StaleIndexInputs
    \cup SeparatedInputs
    \cup PrefixedInputs

\* the values evaluate is called with
VariableValues == {Num(v) : v \in 0..MaxValue}

CollectionValueSet == { <<>>, <<Num(2), Num(5), Num(3)>> }

(***************************************************************************)
(* Actions.                                                                *)
(***************************************************************************)
\* Handle<double>() and the start of Expression(input, handle)
Init ==
  /\ pc = "tokenize"
  /\ input \in Inputs
  /\ names = BuiltinNames
  /\ implementations = BuiltinImplementations
  /\ pos = 0
  /\ expected = "PREFIX"
  /\ tokens = <<Token("OPERAND", "GROUP", <<>>)>>
  /\ groupStack = <<[first |-> 1, second |-> <<"#">>]>>
  /\ frames = <<>>
  /\ variables = <<>>
  /\ collections = <<>>
  /\ target = <<>>
  /\ root = <<>>
  /\ values = <<>>
  /\ collectionValues = <<>>
  /\ result = NoResult
  /\ error = NoError
  /\ lastAdd = NoAdd

\* the tokenizer state t becomes the state of the construction
Tokenized(t) ==
  /\ pos' = t.pos
  /\ expected' = t.expected
  /\ groupStack' = t.groupStack
  /\ tokens' = t.tokens
  /\ pc' = IF t.status \in {"runtime_error", "logic_error", "ub"}
             THEN "failed" ELSE "tokenize"
  /\ error' = IF t.status \in {"runtime_error", "logic_error", "ub"}
                THEN [kind |-> t.status, what |-> t.what] ELSE error
  /\ UNCHANGED <<input, names, implementations, frames, variables, collections,
                 target, root, values, collectionValues, result, lastAdd>>

\* one iteration of the loop of tokenize
TokenizeStep ==
  /\ pc = "tokenize"
  /\ pos < Len(input)
  /\ Tokenized(Iteration(input,
                         [pos |-> pos, expected |-> expected,
                          groupStack |-> groupStack, tokens |-> tokens,
                          status |-> "run", what |-> "none"]))

\* the end of tokenize, and parse() calling buildTree on the root's children
TokenizeEnd ==
  /\ pc = "tokenize"
  /\ pos >= Len(input)
  /\ IF Len(groupStack) # 1
       THEN /\ pc' = "failed"
            /\ error' = [kind |-> "runtime_error", what |-> "unbalanced"]
            /\ frames' = frames
       ELSE /\ pc' = "build"
            /\ error' = error
            /\ frames' = <<Frame("group", tokens[1].children, <<>>)>>
  /\ UNCHANGED <<input, names, implementations, pos, expected, groupStack,
                 tokens, variables, collections, target, root, values,
                 collectionValues, result, lastAdd>>

\* the builder state b becomes the state of the construction
Built(b) ==
  /\ frames' = b.frames
  /\ variables' = b.variables
  /\ collections' = b.collections
  /\ target' = b.target
  /\ root' = b.root
  /\ pc' = IF b.status # "run" THEN "failed"
           ELSE IF b.root # <<>> THEN "built"
           ELSE "build"
  /\ error' = IF b.status # "run" THEN [kind |-> b.status, what |-> b.what]
              ELSE error
  /\ UNCHANGED <<input, names, implementations, pos, expected, groupStack,
                 tokens, values, collectionValues, result, lastAdd>>

CurrentToken == Tok(tokens, Top(frames), Top(frames).i)

\* buildTree: one pass of the loop over the tokens
BuildToken ==
  /\ pc = "build"
  /\ Top(frames).i < Len(Top(frames).toks)
  /\ ~IsNested(CurrentToken)
  /\ Built(TokenStep(tokens, Builder(frames, variables, collections, target)))

\* buildTree: a token with children, buildTree is called for them
BuildCall ==
  /\ pc = "build"
  /\ Top(frames).i < Len(Top(frames).toks)
  /\ IsNested(CurrentToken)
  /\ Built(CallStep(tokens, names, Builder(frames, variables, collections, target)))

\* buildTree: after the loop
BuildReturn ==
  /\ pc = "build"
  /\ Top(frames).i = Len(Top(frames).toks)
  /\ Built(ReturnStep(tokens, Builder(frames, variables, collections, target)))

\* Expression::evaluate(variableValues, collectionValues), called with one
\* value for each name of variables() and of collections()
EvaluateCall ==
  /\ pc = "built"
  /\ \E vv \in [1..Len(variables) -> VariableValues],
        cv \in [1..Len(collections) -> CollectionValueSet] :
       /\ values' = vv
       /\ collectionValues' = cv
       /\ result' = Evaluate(root[1], Env(vv, cv, collections, names, implementations))
  /\ pc' = "evaluated"
  /\ UNCHANGED <<input, names, implementations, pos, expected, groupStack,
                 tokens, frames, variables, collections, target, root, error,
                 lastAdd>>

\* Handle::add called on the handle before the expression is constructed
\* with it
AddCall ==
  /\ pc = "tokenize"
  /\ pos = 0
  /\ input \in CallableInputs
  /\ \E name \in AddedNames, implementation \in AddedImplementations :
       LET h == add(names, implementations, name, implementation)
       IN  /\ names' = h.names
           /\ implementations' = h.implementations
           /\ lastAdd' = [name |-> name, status |-> h.status]
  /\ UNCHANGED <<pc, input, pos, expected, groupStack, tokens, frames, variables,
                 collections, target, root, values, collectionValues, result,
                 error>>

Next ==
  \/ AddCall
  \/ TokenizeStep
  \/ TokenizeEnd
  \/ BuildToken
  \/ BuildCall
  \/ BuildReturn
  \/ EvaluateCall

Spec == Init /\ [][Next]_vars

(***************************************************************************)
(* Abstract syntax trees and values the properties are stated with.        *)
(***************************************************************************)
Group(node) == Node("group", <<node>>)

Binary(type, left, right) == Node(type, <<left, right>>)

Unary(type, operand) == Node(type, <<operand>>)

Variable(k) == Node("variable", <<SizeOperand(k)>>)

Literal(k) == LiteralNode(Num(k))

Ternary(condition, then_result, else_result) ==
  Node("if_then_else", <<condition, then_result, else_result>>)

Constructed == pc \in {"built", "evaluated"}

\* the value of (left type right), an error of left being the outcome
ThenBinary(type, left, right) ==
  IF left.status # "ok" THEN left ELSE BinaryResult(type, left.value, right)

\* the value of (left type right), an error of right being the outcome
BinaryThen(type, left, right) ==
  IF right.status # "ok" THEN right ELSE BinaryResult(type, left, right.value)

(***************************************************************************)
(* C1: a op1 b op2 c with op1, op2 of one precedence level among + - * /   *)
(* is built as (a op1 b) op2 c and evaluates to the value of               *)
(* (a op1 b) op2 c, for all values of a, b and c.                          *)
(***************************************************************************)
C1_LeftAssociative ==
  \A o1, o2 \in ArithmeticOps :
    (Prec(o1) = Prec(o2) /\ input = Chain(<<"a">>, o1, <<"b">>, o2, <<"c">>)) =>
      /\ pc # "failed"
      /\ Constructed =>
           root = <<Group(Binary(infixTypes(o2),
                                 Binary(infixTypes(o1), Variable(0), Variable(1)),
                                 Variable(2)))>>
      /\ pc = "evaluated" =>
           result = ThenBinary(infixTypes(o2),
                               BinaryResult(infixTypes(o1), values[1], values[2]),
                               values[3])

\* a - b - c was evaluated with a value that tells the two bracketings apart
C1_Witness ==
  /\ input = <<"a", "-", "b", "-", "c">>
  /\ pc = "evaluated"
  /\ values = <<Num(5), Num(2), Num(1)>>
  /\ result = Ok(Num(2))

(***************************************************************************)
(* C2, as stated: exponentiation is right-associative, a ^ b ^ c is built  *)
(* and evaluated as a ^ (b ^ c), and 2^3^2 evaluates to 512.               *)
(***************************************************************************)
C2_RightAssociative ==
  /\ \A a, b, c \in LitRange :
       (input = Chain(Lit(a), <<"^">>, Lit(b), <<"^">>, Lit(c)) /\ Constructed) =>
         root = <<Group(Binary("exponentiate", Literal(a),
                               Binary("exponentiate", Literal(b), Literal(c))))>>
  /\ (input = <<"2", "^", "3", "^", "2">> /\ pc = "evaluated") =>
       result = Ok(Num(512))

\* the value of x ^ y, an error of x being the outcome
ThenPower(x, y) == IF x.status # "ok" THEN x ELSE std_pow(x.value, y)

(***************************************************************************)
(* C2, amended: exponentiation is left-associative, a ^ b ^ c is built     *)
(* and evaluated as (a ^ b) ^ c, and 2^3^2 evaluates to 64.                *)
(***************************************************************************)
C2_PowerLeftAssociative ==
  /\ \A a, b, c \in LitRange :
       input = Chain(Lit(a), <<"^">>, Lit(b), <<"^">>, Lit(c)) =>
         /\ pc # "failed"
         /\ Constructed =>
              root = <<Group(Binary("exponentiate",
                                    Binary("exponentiate", Literal(a), Literal(b)),
                                    Literal(c)))>>
         /\ pc = "evaluated" =>
              result = ThenPower(std_pow(Num(a), Num(b)), Num(c))
  /\ input = <<"2", "^", "3", "^", "2">> =>
       /\ pc # "failed"
       /\ pc = "evaluated" => result = Ok(Num(64))

\* 2^3^2 was evaluated
C2_Witness ==
  /\ input = <<"2", "^", "3", "^", "2">>
  /\ pc = "evaluated"
  /\ result.status = "ok"

\* the value an operand written as a digit or as a variable name has
ValueOf(x) ==
  IF x[1] \in Digits THEN Num(DigitValue(x[1]))
  ELSE values[CHOOSE k \in 1..Len(variables) : variables[k] = x]

\* the node an operand written as a digit or as a variable name becomes
NodeOf(x) ==
  IF x[1] \in Digits THEN Literal(DigitValue(x[1]))
  ELSE Variable((CHOOSE k \in 1..Len(variables) : variables[k] = x) - 1)

\* the value of a ? x : (b ? y : z)
NestedChoice(a, x, b, y, z) == IF Truthy(a) THEN x ELSE IF Truthy(b) THEN y ELSE z

(***************************************************************************)
(* C3: the ternary is right-associative: a ? x : b ? y : z and             *)
(* if a then x else if b then y else z are built with the second ternary   *)
(* as the else part of the first, and evaluate to the value of             *)
(* a ? x : (b ? y : z) for all values of a and b.                          *)
(***************************************************************************)
C3_TernaryRightAssociative ==
  \A q \in TernaryBranches :
    /\ input = QuestionForm(<<"a">>, q[1], <<"b">>, q[2], q[3]) =>
         /\ pc # "failed"
         /\ Constructed =>
              root = <<Group(Ternary(Variable(0), Group(NodeOf(q[1])),
                                     Ternary(Variable(1), Group(NodeOf(q[2])),
                                             NodeOf(q[3]))))>>
         /\ pc = "evaluated" =>
              result = Ok(NestedChoice(values[1], ValueOf(q[1]), values[2],
                                       ValueOf(q[2]), ValueOf(q[3])))
    /\ input = WordForm(<<"a">>, q[1], <<"b">>, q[2], q[3]) =>
         /\ pc # "failed"
         /\ Constructed =>
              root = <<Group(Ternary(Group(Variable(0)), Group(NodeOf(q[1])),
                                     Ternary(Group(Variable(1)), Group(NodeOf(q[2])),
                                             NodeOf(q[3]))))>>
         /\ pc = "evaluated" =>
              result = Ok(NestedChoice(values[1], ValueOf(q[1]), values[2],
                                       ValueOf(q[2]), ValueOf(q[3])))

\* a false, b true: the second ternary decided, in the word form
C3_Witness ==
  /\ input = WordForm(<<"a">>, Lit(1), <<"b">>, Lit(2), Lit(0))
  /\ pc = "evaluated"
  /\ values = <<Num(0), Num(1)>>
  /\ result = Ok(Num(2))

(***************************************************************************)
(* C4: for two binary infix operators of different precedence levels       *)
(* (exponentiate 2, multiply/divide/and 4, add/subtract/or 5,              *)
(* comparison/membership 7), a op1 b op2 c is built as (a op1 b) op2 c     *)
(* when op1 has the smaller precedence number and as a op1 (b op2 c) when  *)
(* op2 has it.                                                             *)
(***************************************************************************)
C4_TighterOperatorFirst ==
  \A o1, o2 \in BinaryOps :
    (Prec(o1) # Prec(o2) /\ input = Chain(<<"1">>, o1, <<"2">>, o2, <<"3">>)) =>
      /\ pc # "failed"
      /\ Constructed =>
           root = <<Group(IF Prec(o1) < Prec(o2)
                            THEN Binary(infixTypes(o2),
                                        Binary(infixTypes(o1), Literal(1), Literal(2)),
                                        Literal(3))
                            ELSE Binary(infixTypes(o1), Literal(1),
                                        Binary(infixTypes(o2), Literal(2), Literal(3))))>>

\* 1+2*3 was built with the second operator applied first, and evaluated
C4_Witness ==
  /\ input = <<"1", "+", "2", "*", "3">>
  /\ pc = "evaluated"
  /\ root = <<Group(Binary("add", Literal(1), Binary("multiply", Literal(2), Literal(3))))>>
  /\ result = Ok(Num(7))

(***************************************************************************)
(* C5, as stated: exponentiation binds tighter than a prefix operator:     *)
(* -a ^ b is built as negate(exponentiate(a, b)) and !a ^ b as             *)
(* logical_not(exponentiate(a, b)), never as exponentiate(negate(a), b).   *)
(***************************************************************************)
C5_PowerBeforePrefix ==
  /\ \A o \in PrefixOps :
       (input = o \o <<"a", "^", "b">> /\ Constructed) =>
         root = <<Group(Unary(prefixTypes(o),
                              Binary("exponentiate", Variable(0), Variable(1))))>>
  /\ (input = <<"-", "2", "^", "2">> /\ Constructed) =>
       root = <<Group(Unary("negate", Binary("exponentiate", Literal(2), Literal(2))))>>

\* -2^2 was built as exponentiate(negate(2), 2) and evaluated to 4
C5_Witness ==
  /\ input = <<"-", "2", "^", "2">>
  /\ pc = "evaluated"
  /\ root = <<Group(Binary("exponentiate", Unary("negate", Literal(2)), Literal(2)))>>
  /\ result = Ok(Num(4))

(***************************************************************************)
(* C6: in p op c ? a : b with a binary infix operator op the condition of  *)
(* the ternary is the operand c alone: the expression is built as          *)
(* p op (c ? a : b) and has that value; 3 + false ? 4 : -1 evaluates to 2  *)
(* and 1>0 ? 1 : 2 to 0.                                                   *)
(***************************************************************************)
C6_TernaryTakesOneOperand ==
  /\ \A op \in TernaryOperandOps :
       input = OperatorThenTernary(<<"p">>, op, <<"c">>, Lit(1), Lit(2)) =>
         /\ pc # "failed"
         /\ Constructed =>
              root = <<Group(Binary(infixTypes(op), Variable(0),
                                    Ternary(Variable(1), Group(Literal(1)),
                                            Literal(2))))>>
         /\ pc = "evaluated" =>
              result = BinaryResult(infixTypes(op), values[1],
                                    IF Truthy(values[2]) THEN Num(1) ELSE Num(2))
  /\ input = <<"3", " ", "+", " ", "f", "a", "l", "s", "e", " ", "?", " ", "4",
               " ", ":", " ", "-", "1">> =>
       /\ pc # "failed"
       /\ pc = "evaluated" => result = Ok(Num(2))
  /\ input = <<"1", ">", "0", " ", "?", " ", "1", " ", ":", " ", "2">> =>
       /\ pc # "failed"
       /\ pc = "evaluated" => result = Ok(Num(0))

\* p + c ? 1 : 2 with p = 0 and c = 0 is 0 + 2, and (0 + 0) ? 1 : 2 is 2 as
\* well; with p = 3 and c = 0 it is 5, where (3 + 0) ? 1 : 2 is 1
C6_Witness ==
  /\ input = OperatorThenTernary(<<"p">>, <<"+">>, <<"c">>, Lit(1), Lit(2))
  /\ pc = "evaluated"
  /\ values = <<Num(3), Num(0)>>
  /\ result = Ok(Num(5))

(***************************************************************************)
(* C7, as stated: 3 <= x < y evaluated with x = 4 and y = 4 returns 0.     *)
(***************************************************************************)
C7_ChainReturnsZero ==
  (/\ input = <<"3", " ", "<", "=", " ", "x", " ", "<", " ", "y">>
   /\ pc = "evaluated"
   /\ values = <<Num(4), Num(4)>>) => result = Ok(Num(0))

(***************************************************************************)
(* C7, amended: 3 <= x < y is the comparison of (3 <= x), which is 0 or 1, *)
(* with y; evaluated with x = 4 and y = 4 it returns 1.                    *)
(***************************************************************************)
C7_ChainComparesTruthValue ==
  input = <<"3", " ", "<", "=", " ", "x", " ", "<", " ", "y">> =>
    /\ pc # "failed"
    /\ pc = "evaluated" =>
         /\ result = Ok(Bool(Less(Bool(LessEq(Num(3), values[1])), values[2])))
         /\ values = <<Num(4), Num(4)>> => result = Ok(Num(1))

\* 3 <= x < y was evaluated with x = 4 and y = 4
C7_Witness ==
  /\ input = <<"3", " ", "<", "=", " ", "x", " ", "<", " ", "y">>
  /\ pc = "evaluated"
  /\ values = <<Num(4), Num(4)>>

AssignmentTypes ==
  {"assign", "add_assign", "subtract_assign", "multiply_assign", "divide_assign"}

\* whether the text reads the variable with the one-letter name v
Reads(text, v) == \E k \in 1..Len(text) : text[k] = v[1]

Contains(names_, v) == \E k \in 1..Len(names_) : names_[k] = v

\* the environment of the call of evaluate made
CallEnv == Env(values, collectionValues, collections, names, implementations)

(***************************************************************************)
(* C8, as stated: after the successful construction of v := rhs (or        *)
(* v u_assign rhs) target() is v, variables() contains v if and only if    *)
(* rhs reads v, and evaluate returns the value of rhs.                     *)
(***************************************************************************)
C8_AssignSetsTarget ==
  \A op \in AssignOps, rhs \in RightHandSides :
    (input = Assignment(<<"x">>, op, rhs) /\ Constructed) =>
      /\ target = << <<"x">> >>
      /\ Contains(variables, <<"x">>) <=> Reads(rhs, <<"x">>)
      /\ root[1].operands[1].type = "assign"
      /\ pc = "evaluated" =>
           result = Evaluate(root[1].operands[1].operands[1], CallEnv)

(***************************************************************************)
(* C9, as stated: for every successfully constructed expression target()   *)
(* holds a name if and only if the operator of the root's single child is  *)
(* one of assign, add_assign, subtract_assign, multiply_assign,            *)
(* divide_assign.                                                          *)
(***************************************************************************)
C9_TargetIffOutermostAssignment ==
  Constructed =>
    (target # <<>> <=> root[1].operands[1].type \in AssignmentTypes)

\* the binary operator a compound assignment applies
CompoundOperator(op) ==
  CASE op = <<"+", "=">> -> "add"
    [] op = <<"-", "=">> -> "subtract"
    [] op = <<"*", "=">> -> "multiply"
    [] op = <<"/", "=">> -> "divide"

(***************************************************************************)
(* C10, as stated: for v op= rhs with op among + - * / target() is v, v is *)
(* the first entry of variables(), the whole remainder of the expression   *)
(* is the right operand (x /= 3 + 2 with x = 5 gives 1) and evaluate       *)
(* returns value(v) op value(rhs); z -= u_sqrt(x u_sq + y u_sq) with       *)
(* z = 5, x = 3, y = 4 returns 0 with target z.                            *)
(***************************************************************************)
C10_CompoundAssignment ==
  /\ \A op \in CompoundOps, rhs \in RightHandSides :
       (input = Assignment(<<"x">>, op, rhs) /\ Constructed) =>
         /\ target = << <<"x">> >>
         /\ variables # <<>> /\ variables[1] = <<"x">>
         /\ root[1].operands[1].type = infixTypes(op)
         /\ root[1].operands[1].operands[1] = Variable(0)
         /\ rhs = <<"3", " ", "+", " ", "2">> =>
              root[1].operands[1].operands[2] = Binary("add", Literal(3), Literal(2))
         /\ pc = "evaluated" =>
              result = BinaryThen(CompoundOperator(op), values[1],
                                  Evaluate(root[1].operands[1].operands[2], CallEnv))
  /\ (/\ input = <<"x", " ", "/", "=", " ", "3", " ", "+", " ", "2">>
      /\ pc = "evaluated"
      /\ values = <<Num(5)>>) => result = Ok(Num(1))
  /\ (/\ input = <<"z", " ", "-", "=", " ", "u_sqrt", "(", "x", "u_sq", "+", "y",
                   "u_sq", ")">>
      /\ Constructed) =>
       /\ target = << <<"z">> >>
       /\ (pc = "evaluated" /\ values = <<Num(5), Num(3), Num(4)>>) =>
            result = Ok(Num(0))

\* x := (y := 2) was constructed, and target() is y
C8_Witness ==
  /\ input = Assignment(<<"x">>, <<":", "=">>, <<"(", "y", " ", ":", "=", " ", "2", ")">>)
  /\ pc = "built"
  /\ target = << <<"y">> >>

\* (x := 3) + 1 was constructed: the outermost operator is add, and
\* target() is x
C9_Witness ==
  /\ input = <<"(", "x", " ", ":", "=", " ", "3", ")", " ", "+", " ", "1">>
  /\ pc = "built"
  /\ root[1].operands[1].type = "add"
  /\ target = << <<"x">> >>

\* x += (w += 1) was constructed, and target() is w
C10_Witness ==
  /\ input = Assignment(<<"x">>, <<"+", "=">>, <<"(", "w", " ", "+", "=", " ", "1", ")">>)
  /\ pc = "built"
  /\ target = << <<"w">> >>

\* the words of the language that are no names of variables
ReservedWords ==
  { <<"i", "f">>, <<"t", "h", "e", "n">>, <<"e", "l", "s", "e">>, <<"t", "r", "u",
      "e">>, <<"f", "a", "l", "s", "e">>, <<"a", "n", "d">>, <<"o", "r">>, <<"i",
      "n">>, <<"n", "o", "t">> }

\* the distinct names of scalar variables of the text from position p on,
\* in the order of their first occurrence, after those of acc: a name is
\* a maximal run of letters, digits and underscores that starts with a
\* letter or underscore, is no word of the language and has no bracket
\* after it
RECURSIVE ScalarNames(_, _, _)
ScalarNames(text, p, acc) ==
  IF p >= Len(text) THEN acc
  ELSE IF isnumeric(text[p + 1]) THEN ScalarNames(text, NumericRun(text, p), acc)
  ELSE IF ~isalphanumeric(text[p + 1]) THEN ScalarNames(text, p + 1, acc)
  ELSE LET e == NameRun(text, p)
           word == SubSeq(text, p + 1, e)
           called == e < Len(text) /\ text[e + 1] \in {"(", "[", "{"}
       IN  IF word \in ReservedWords \/ called \/ Contains(acc, word)
             THEN ScalarNames(text, e, acc)
           ELSE ScalarNames(text, e, Append(acc, word))

\* whether := or its one-glyph form occurs in the text
HasPlainAssignment(text) ==
  \E k \in 1..Len(text) :
    \/ text[k] = "u_assign"
    \/ k < Len(text) /\ text[k] = ":" /\ text[k + 1] = "="

\* the value bound to the variable of the given one-letter name
V(name) == ValueOf(<<name>>)

MaxOf2(x, y) == IF Less(x, y) THEN y ELSE x

AbsOf(x) == IF x.n < 0 THEN Neg(x) ELSE x

\* the value of an input of VariableOrderInputs, every occurrence of a
\* name replaced by the value bound to the name
SubstitutedValue(text) ==
  CASE text = <<"b", " ", "+", " ", "a", " ", "*", " ", "b">> -> Add(V("b"),
      Mul(V("a"), V("b")))
    [] text = <<"(", "c", " ", "-", " ", "a", ")", " ", "*", " ", "b", " ", "-", " ",
        "c">> -> Sub(Mul(Sub(V("c"), V("a")), V("b")), V("c"))
    [] text = <<"m", "a", "x", "(", "b", ",", " ", "a", ")", " ", "-", " ",
        "a">> -> Sub(MaxOf2(V("b"), V("a")), V("a"))
    [] text = <<"a", " ", "?", " ", "c", " ", ":", " ",
        "b">> -> IF Truthy(V("a")) THEN V("c") ELSE V("b")
    [] text = <<"i", "f", " ", "b", " ", "t", "h", "e", "n", " ", "a", " ", "e", "l",
        "s", "e", " ", "b">> -> IF Truthy(V("b")) THEN V("a") ELSE V("b")
    [] text = <<"y", " ", "+", "=", " ", "x", " ", "*", " ", "y">> -> Add(V("y"),
        Mul(V("x"), V("y")))
    [] text = <<"a", "b", "s", "(", "a", " ", "-", " ", "b", ")", " ", "+", " ", "a",
        "u_sq">> -> Add(AbsOf(Sub(V("a"), V("b"))), Mul(V("a"), V("a")))
    [] text = <<"x", " ", "-", " ", "y", " ", "+", " ", "z">> -> Add(Sub(V("x"),
        V("y")), V("z"))

(***************************************************************************)
(* C11: for an expression without a plain assignment variables() lists     *)
(* every distinct scalar variable name of the input once, in the order of  *)
(* first occurrence (inside brackets, call arguments and ternary parts     *)
(* too), and evaluate substitutes variableValues[i] for every occurrence   *)
(* of variables()[i].                                                      *)
(***************************************************************************)
C11_VariablesInFirstOccurrenceOrder ==
  /\ (Constructed /\ ~HasPlainAssignment(input)) =>
       variables = ScalarNames(input, 0, <<>>)
  /\ input \in VariableOrderInputs =>
       /\ pc # "failed"
       /\ pc = "evaluated" => result = Ok(SubstitutedValue(input))

\* max(b, a) - a was evaluated with b = 1 and a = 4: variables() is b, a
C11_Witness ==
  /\ input = <<"m", "a", "x", "(", "b", ",", " ", "a", ")", " ", "-", " ", "a">>
  /\ pc = "evaluated"
  /\ variables = << <<"b">>, <<"a">> >>
  /\ values = <<Num(1), Num(4)>>
  /\ result = Ok(Num(0))

IsTokenized == pc \in {"build", "built", "evaluated"}

\* the tokens of the given category
TokensOf(category) == { k \in 1..Len(tokens) : tokens[k].category = category }

(***************************************************************************)
(* C12: a textual keyword or operator (if, then, else, true, false, and,   *)
(* or, in, not in) is recognised only when the character after it is no    *)
(* letter, digit or underscore; an identifier in operand position that     *)
(* begins with such a word is tokenized as one VARIABLE whose name is the  *)
(* full identifier.                                                        *)
(***************************************************************************)
C12_WordBoundary ==
  /\ input \in WordPrefixedNames =>
       /\ pc # "failed"
       /\ IsTokenized =>
            /\ Len(tokens) = 2
            /\ tokens[1].children = <<2>>
            /\ tokens[2] = Token("OPERAND", "VARIABLE", input)
       /\ Constructed => variables = <<input>> /\ root = <<Group(Variable(0))>>
       /\ pc = "evaluated" => result = Ok(values[1])
  /\ \A w \in InfixWords :
       /\ input = <<"a", " ">> \o w \o <<" ", "b">> =>
            /\ pc # "failed"
            /\ Constructed =>
                 root = <<Group(Binary(infixTypes(w), Variable(0), Variable(1)))>>
       /\ \A s \in WordSuffixes :
            input = <<"a", " ">> \o w \o s =>
              /\ pc \notin {"build", "built", "evaluated"}
              /\ \A k \in TokensOf("INFIX") : tokens[k].value # w
              /\ pos >= Len(input) - Len(s) => pc = "failed"
  /\ input = <<"i", "f", " ", "a", " ", "t", "h", "e", "n", " ", "b", " ", "e", "l",
      "s", "e", " ", "c">> =>
       /\ pc # "failed"
       /\ Constructed =>
            root = <<Group(Ternary(Group(Variable(0)), Group(Variable(1)),
                Variable(2)))>>
  /\ input \in { <<"i", "f", " ", "a", " ", "t", "h", "e", "n", "x", " ", "e", "l",
      "s", "e", " ", "c">>, <<"i", "f", " ", "a", " ", "t", "h", "e", "n", " ", "b",
      " ", "e", "l", "s", "e", "x">> } =>
       /\ ~IsTokenized
       /\ pos >= Len(input) => pc = "failed"
  /\ (input = <<"i", "f", " ", "a", " ", "t", "h", "e", "n", " ", "t", "h", "e", "n",
      "x", " ", "e", "l", "s", "e", " ", "e", "l", "s", "e", "x">> /\ Constructed) =>
       /\ variables = << <<"a">>, <<"t", "h", "e", "n", "x">>, <<"e", "l", "s", "e",
           "x">> >>
       /\ root = <<Group(Ternary(Group(Variable(0)), Group(Variable(1)), Variable(2)))>>
  /\ (input = <<"t", "r", "u", "e", "x", " ", "+", " ", "t", "r", "u",
      "e">> /\ Constructed) =>
       /\ variables = << <<"t", "r", "u", "e", "x">> >>
       /\ root = <<Group(Binary("add", Variable(0), Literal(1)))>>

\* orange was tokenized as the variable orange, not as or and ange
C12_Witness ==
  /\ input = <<"o", "r", "a", "n", "g", "e">>
  /\ pc = "built"
  /\ tokens[2] = Token("OPERAND", "VARIABLE", <<"o", "r", "a", "n", "g", "e">>)
  /\ variables = << <<"o", "r", "a", "n", "g", "e">> >>

\* some element of the list has the value of the probe
Member(probe, elements) ==
  \E i \in 1..Len(elements) : ValueOf(elements[i]) = ValueOf(probe)

IsElementOf(op) == infixTypes(op) = "element_of"

(***************************************************************************)
(* C13: for every probe x and every non-empty list a1..aN, x u_in {a1,     *)
(* ..., aN} (also written in) evaluates to 1 if some ai equals x and to 0  *)
(* otherwise, and x u_notin {a1, ..., aN} (also not in) evaluates to the   *)
(* complementary value.                                                    *)
(***************************************************************************)
C13_Membership ==
  /\ \A m \in MembershipCases, op \in MembershipOps :
       input = MembershipInput(m.probe, op, m.elements) =>
         /\ pc # "failed"
         /\ pc = "evaluated" =>
              result = Ok(Bool(Member(m.probe, m.elements) <=> IsElementOf(op)))
  /\ input = <<"a", " ", "i", "n", " ", "{", "b", " ", "+", " ", "1", ",", " ", "2",
         " ", "*", " ", "b", "}">> =>
       /\ pc # "failed"
       /\ pc = "evaluated" =>
            result = Ok(Bool(\/ V("a") = Add(V("b"), Num(1))
                             \/ V("a") = Mul(Num(2), V("b"))))
  /\ input = <<"a", " ", "+", " ", "1", " ", "u_notin", " ", "{", "b", ",", " ", "(",
         "2", ")", "}">> =>
       /\ pc # "failed"
       /\ pc = "evaluated" =>
            result = Ok(Bool(~(\/ Add(V("a"), Num(1)) = V("b")
                               \/ Add(V("a"), Num(1)) = Num(2))))

\* 3 is the second of the elements 1 and b of a in {1, b}
C13_Witness ==
  /\ input = MembershipInput(<<"a">>, <<"i", "n">>, << <<"1">>, <<"b">> >>)
  /\ pc = "evaluated"
  /\ values = <<Num(3), Num(3)>>
  /\ result = Ok(Num(1))

\* 4 is no element of {1, 2, 3}
C13_WitnessComplement ==
  /\ input = MembershipInput(<<"4">>, <<"u_notin">>, << <<"1">>, <<"2">>, <<"3">> >>)
  /\ pc = "evaluated"
  /\ result = Ok(Num(1))

\* the value written between the brackets of an input of IndexInputs
IndexValue(text) ==
  CASE text = <<"x", "[", "a", "]">> -> V("a")
    [] text = <<"x", "[", "a", " ", "+", " ", "1", "]">> -> Add(V("a"), Num(1))
    [] text = <<"x", "[", "a", " ", "-", " ", "2", "]">> -> Sub(V("a"), Num(2))
    [] text = <<"x", "[", "a", " ", "/", " ", "2", "]">> -> Div(V("a"), Num(2))
    [] text \in { <<"x", "[", "5", "-", "2", "]">>, <<"y", " ", "+", " ", "x", "[",
        "5", "-", "2", "]">> } -> Num(3)
    [] text = <<"x", "[", "(", "2", ")", "]">> -> Num(2)
    [] OTHER -> Num(DigitValue(text[3]))

\* what is added to the indexed element in an input of IndexInputs
IndexOffset(text) == IF text[1] = "y" THEN V("y") ELSE Num(0)

ErrorStatuses == {"runtime_error", "logic_error"}

(***************************************************************************)
(* C14: indexing is 1-based and bounds-checked: for a collection v1..vN    *)
(* bound to c, c[k] evaluates to vk for every k in 1..N, whether k is      *)
(* written as a literal or computed, and the evaluation fails with an      *)
(* error for every other index value (0, values above N).                  *)
(***************************************************************************)
C14_IndexBoundsChecked ==
  (input \in IndexInputs /\ pc = "evaluated") =>
    LET k == IndexValue(input)
        c == collectionValues[1]
    IN  IF k.d = 1 /\ k.n \in 1..Len(c)
          THEN result = Ok(Add(IndexOffset(input), c[k.n]))
        ELSE result.status \in ErrorStatuses

\* the same for the index values that are whole and not negative
C14_WholeIndexBoundsChecked ==
  (input \in IndexInputs /\ pc = "evaluated") =>
    LET k == IndexValue(input)
        c == collectionValues[1]
    IN  (k.d = 1 /\ k.n >= 0) =>
          IF k.n \in 1..Len(c)
            THEN result = Ok(Add(IndexOffset(input), c[k.n]))
          ELSE result.status \in ErrorStatuses

\* x[a / 2] for a = 3 returned the first element of 2, 5, 3
C14_Witness ==
  /\ input = <<"x", "[", "a", " ", "/", " ", "2", "]">>
  /\ pc = "evaluated"
  /\ values = <<Num(3)>>
  /\ collectionValues = << <<Num(2), Num(5), Num(3)>> >>
  /\ result = Ok(Num(2))

\* the value of the divisor in an input of DivisionInputs
Divisor(text) ==
  CASE text \in { <<"a", " ", "/", " ", "b">>, <<"a", " ", "/", " ", "b", " ", "/",
      " ", "2">> } -> V("b")
    [] text = <<"1", " ", "/", " ", "(", "a", " ", "-", " ", "b", ")">> -> Sub(V("a"),
        V("b"))
    [] text = <<"x", " ", "/", "=", " ", "y">> -> V("y")
    [] text = <<"x", " ", "/", "=", " ", "y", " ", "-", " ", "1">> -> Sub(V("y"),
        Num(1))
    [] OTHER -> Num(0)

(***************************************************************************)
(* C15: every division whose divisor evaluates to zero, whether written    *)
(* with / or with /=, makes evaluate fail with the error "Division by      *)
(* zero" instead of returning a value.                                     *)
(***************************************************************************)
C15_DivisionByZeroFails ==
  (input \in DivisionInputs /\ pc = "evaluated" /\ Divisor(input) = Num(0)) =>
    result = Fail("runtime_error")

\* the same for the divisions written with /
C15_SlashByZeroFails ==
  (input \in SlashInputs /\ pc = "evaluated" /\ Divisor(input) = Num(0)) =>
    result = Fail("runtime_error")

\* x /= y returned infinity for x = 3 and y = 0
C15_Witness ==
  /\ input = <<"x", " ", "/", "=", " ", "y">>
  /\ pc = "evaluated"
  /\ values = <<Num(3), Num(0)>>
  /\ result = Ok(Dbl(1, 0))

(***************************************************************************)
(* C16: the evaluation of a ternary is eager: the condition, the then      *)
(* part and the else part are all evaluated before the selection, so an    *)
(* error raised by the part that is not selected (a division by zero)      *)
(* makes the whole evaluation fail.                                        *)
(***************************************************************************)
C16_TernaryEager ==
  (input \in EagerInputs /\ pc = "evaluated") =>
    IF V("b") = Num(0) THEN result = Fail("runtime_error")
    ELSE result = Ok(IF Truthy(V("a")) = (input \in FailingThenInputs)
                       THEN Div(Num(1), V("b")) ELSE Num(2))

\* a ? 2 : 1 / b failed for a = 1 and b = 0, where the then part is selected
C16_Witness ==
  /\ input = <<"a", " ", "?", " ", "2", " ", ":", " ", "1", " ", "/", " ", "b">>
  /\ pc = "evaluated"
  /\ values = <<Num(1), Num(0)>>
  /\ result = Fail("runtime_error")

NoDuplicate(s) == \A i, j \in 1..Len(s) : s[i] = s[j] => i = j

\* what a step that is a call of Handle::add does to the two lists
AddEffect ==
  IF Contains(names, lastAdd'.name)
    THEN /\ lastAdd'.status = "runtime_error"
         /\ names' = names
         /\ implementations' = implementations
  ELSE /\ lastAdd'.status = "ok"
       /\ names' = Append(names, lastAdd'.name)
       /\ Len(implementations') = Len(implementations) + 1
       /\ SubSeq(implementations', 1, Len(implementations)) = implementations

(***************************************************************************)
(* C17: after any sequence of Handle::add calls the name list of the       *)
(* handle holds no duplicate and is as long as the implementation list; an *)
(* add with a name that is present already (the name of a built-in         *)
(* included) fails with an error and leaves both lists unchanged.          *)
(***************************************************************************)
C17_AddKeepsNamesDistinct ==
  /\ [](NoDuplicate(names) /\ Len(names) = Len(implementations))
  /\ [][lastAdd' # lastAdd => AddEffect]_vars

\* add("sum", ...) failed after f was added: the lists are the built-ins and f
C17_Witness ==
  /\ lastAdd = [name |-> <<"s", "u", "m">>, status |-> "runtime_error"]
  /\ names = Append(BuiltinNames, <<"f">>)
  /\ Len(implementations) = BUILTINS + 1

RootEntry == [first |-> 1, second |-> <<"#">>]

\* the entries of the group stack below its top
BelowTop(stack) == SubSeq(stack, 1, Len(stack) - 1)

\* the terminator of the entry on top of the group stack is what the step
\* has consumed
TerminatorConsumed ==
  LET second == Top(groupStack).second
  IN  /\ pos' >= Len(second)
      /\ SubSeq(input, pos' - Len(second) + 1, pos') = second

\* a step of the tokenizer leaves the group stack as it is, pushes one
\* entry, or removes the entry on top, and this after it has consumed the
\* terminator of that entry; then is followed by the push of the group
\* that else closes
StackDiscipline ==
  \/ groupStack' = groupStack
  \/ BelowTop(groupStack') = groupStack
  \/ groupStack' = BelowTop(groupStack) /\ TerminatorConsumed
  \/ /\ BelowTop(groupStack') = BelowTop(groupStack)
     /\ Top(groupStack).second = ternary[2]
     /\ Top(groupStack').second = ternary[3]
     /\ TerminatorConsumed

UnbalancedError == [kind |-> "runtime_error", what |-> "unbalanced"]

C19_NoLogicError ==
  pc = "failed" => error.kind = "runtime_error"

\* the construction of 1 + ended with the std::logic_error of applyOperator
C19_Witness ==
  /\ input = <<"1", " ", "+">>
  /\ pc = "failed"
  /\ error = [kind |-> "logic_error", what |-> "insufficient_operands_for_infix"]

\* the names an input of CallableInputs calls
Callees(text) ==
  CASE text = <<"f", "(", "1", ")">> -> { <<"f">> }
    [] text = <<"g", "{", "a", ",", " ", "2", "}">> -> { <<"g">> }
    [] text = <<"g", "{", "x", "[", "]", "}">> -> { <<"g">> }
    [] text = <<"f", "(", "2", ")", " ", "+", " ", "g", "(", "1", ",", " ", "1",
        ")">> -> { <<"f">>, <<"g">> }
    [] text = <<"1", " ", "+", " ", "h", "(", "2", ")">> -> { <<"h">> }
    [] text = <<"s", "u", "m", "(", "1", ",", " ", "a", ")">> -> { <<"s", "u", "m">> }
    [] text = <<"c", "o", "u", "n", "t", "{", "1", ",", " ", "2", "}">> -> { <<"c",
        "o", "u", "n", "t">> }
    [] text \in { <<"f", "(", "2", ")", " ", "^", " ", "2">>,
                  <<"i", "f", " ", "a", " ", "i", "n", " ", "{", "f", "(", "1", ")",
                    "}", " ", "t", "h", "e", "n", " ", "3", " ", "e", "l", "s", "e",
                    " ", "4">> } -> { <<"f">> }
    [] OTHER -> {}

\* a step that is a successful call of Handle::add and nothing else
AddStep ==
  /\ lastAdd'.status = "ok"
  /\ names' = Append(names, lastAdd'.name)
  /\ UNCHANGED <<pc, input, pos, expected, groupStack, tokens, frames, variables,
                 collections, target, root, values, collectionValues, result, error>>

UnknownCallable == [kind |-> "logic_error", what |-> "unknown_callable"]

(***************************************************************************)
(* C20: the construction of an expression that calls a function or an      *)
(* aggregation whose name is not registered in the handle fails with an    *)
(* error, yields no expression, and leaves names and implementations of    *)
(* the handle unchanged; construction and evaluation never add to or       *)
(* change the handle.                                                      *)
(***************************************************************************)
C20_UnknownCallableFails ==
  /\ [](input \in CallableInputs =>
          IF \E name \in Callees(input) : ~Contains(names, name)
            THEN /\ pc \notin {"built", "evaluated"}
                 /\ root = <<>>
                 /\ result = NoResult
                 /\ pc = "failed" => error = UnknownCallable
          ELSE pc # "failed")
  /\ [][(names' # names \/ implementations' # implementations) => AddStep]_vars

\* f(2) + g(1, 1) failed at g with a handle that holds f and no g
C20_Witness ==
  /\ input = <<"f", "(", "2", ")", " ", "+", " ", "g", "(", "1", ",", " ", "1", ")">>
  /\ names = Append(BuiltinNames, <<"f">>)
  /\ pc = "failed"
  /\ error = UnknownCallable
  /\ root = <<>>

(***************************************************************************)
(* C21: the construction fails with a parse error whenever an assignment   *)
(* operator (:=, u_assign, +=, -=, *=, /=) occurs at a place other than    *)
(* directly after the first token of the whole expression, also in         *)
(* brackets, in call arguments and in the parts of a ternary.              *)
(***************************************************************************)
C21_MisplacedAssignmentFails ==
  input \in MisplacedAssignInputs =>
    /\ ~Constructed
    /\ pc = "failed" => error.kind = "runtime_error"

\* the same for an assignment operator that is not the second token of the
\* token list it is in
C21_LateAssignmentFails ==
  input \in LateAssignInputs =>
    /\ ~Constructed
    /\ pc = "failed" =>
         error = [kind |-> "runtime_error", what |-> "assignment_not_in_second_place"]

\* (x := 3) + 1 was constructed, with the target x
C21_Witness ==
  /\ input = <<"(", "x", " ", ":", "=", " ", "3", ")", " ", "+", " ", "1">>
  /\ pc = "built"
  /\ target = << <<"x">> >>
  /\ root = <<Group(Binary("add", Group(Unary("assign", Literal(3))), Literal(1)))>>

\* the value a callable added with the given implementation returns for
\* one argument: count counts it, sum returns it
AddedValue(implementation, argument) ==
  IF implementation = "count" THEN Num(1) ELSE argument

\* the implementation registered under the name f
ImplementationOfF ==
  implementations[CHOOSE k \in 1..Len(names) : names[k] = <<"f">>]

(***************************************************************************)
(* C22: for a freshly constructed handle, and after any sequence of add    *)
(* calls, the name at position k of the handle is the built-in named by    *)
(* the enumerated constant k, for every k below BUILTINS, so that the      *)
(* indices the evaluator uses for pow, n_ary_if, if_then_else, element_of, *)
(* not_element_of and at always reach the matching implementation.         *)
(***************************************************************************)
C22_BuiltinsKeepTheirIndex ==
  /\ Len(names) >= BUILTINS
  /\ Len(implementations) >= BUILTINS
  /\ SubSeq(names, 1, BUILTINS) = BuiltinNames
  /\ SubSeq(implementations, 1, BUILTINS) = BuiltinImplementations
  /\ names[IF_THEN_ELSE + 1] = <<"i", "f", "_", "t", "h", "e", "n", "_", "e", "l", "s",
      "e">>
  /\ names[N_ARY_IF + 1] = <<"n", "_", "a", "r", "y", "_", "i", "f">>
  /\ names[ABS + 1] = <<"a", "b", "s">>
  /\ names[POW + 1] = <<"p", "o", "w">>
  /\ names[SQRT + 1] = <<"s", "q", "r", "t">>
  /\ names[CBRT + 1] = <<"c", "b", "r", "t">>
  /\ names[SUM + 1] = <<"s", "u", "m">>
  /\ names[AVG + 1] = <<"a", "v", "g">>
  /\ names[COUNT + 1] = <<"c", "o", "u", "n", "t">>
  /\ names[MIN + 1] = <<"m", "i", "n">>
  /\ names[MAX + 1] = <<"m", "a", "x">>
  /\ names[ELEMENT_OF + 1] = <<"e", "l", "e", "m", "e", "n", "t", "_", "o", "f">>
  /\ names[NOT_ELEMENT_OF + 1] = <<"n", "o", "t", "_", "e", "l", "e", "m", "e", "n",
      "t", "_", "o", "f">>
  /\ names[AT + 1] = <<"a", "t">>
  /\ (input = <<"f", "(", "2", ")", " ", "^", " ", "2">> /\ pc = "evaluated") =>
       result = Ok(Mul(AddedValue(ImplementationOfF, Num(2)),
                       AddedValue(ImplementationOfF, Num(2))))
  /\ (input = <<"i", "f", " ", "a", " ", "i", "n", " ", "{", "f", "(", "1", ")", "}",
                " ", "t", "h", "e", "n", " ", "3", " ", "e", "l", "s", "e", " ", "4">>
        /\ pc = "evaluated") =>
       result = Ok(IF V("a") = Num(1) THEN Num(3) ELSE Num(4))

\* f(2) ^ 2 evaluated to 4 with g and f = sum added after the built-ins
C22_Witness ==
  /\ input = <<"f", "(", "2", ")", " ", "^", " ", "2">>
  /\ names = BuiltinNames \o << <<"g">>, <<"f">> >>
  /\ ImplementationOfF = "sum"
  /\ pc = "evaluated"
  /\ result = Ok(Num(4))

TernaryPartKinds == {"if_", "_then_", "_else"}

\* the operands of a node that are nodes
NodeOperands(node) == { k \in 1..Len(node.operands) : HoldsNode(node.operands[k]) }

\* no node of the tree is of the kind of a part of a ternary, and each
\* if_then_else node has three operands, the then part a group
RECURSIVE TernariesComplete(_)
TernariesComplete(node) ==
  /\ node.type \notin TernaryPartKinds
  /\ node.type = "if_then_else" =>
       /\ Len(node.operands) = 3
       /\ NodeOperands(node) = {1, 2, 3}
       /\ node.operands[2].type = "group"
  /\ \A k \in NodeOperands(node) : TernariesComplete(node.operands[k])

\* the number of if_then_else nodes of the tree
RECURSIVE CountTernaries(_)
RECURSIVE CountTernariesFrom(_, _)
CountTernariesFrom(node, k) ==
  IF k > Len(node.operands) THEN 0
  ELSE (IF HoldsNode(node.operands[k]) THEN CountTernaries(node.operands[k]) ELSE 0)
       + CountTernariesFrom(node, k + 1)

CountTernaries(node) ==
  (IF node.type = "if_then_else" THEN 1 ELSE 0) + CountTernariesFrom(node, 1)

\* the tokens that open the then part of a ternary and the condition of one
ThenGroups ==
  { k \in 1..Len(tokens) : tokens[k].category = "INFIX" /\ tokens[k].type = "GROUP" }

IfGroups ==
  { k \in 1..Len(tokens) : tokens[k].category = "PREFIX" /\ tokens[k].type = "GROUP" }

\* the number of if_then_else nodes of the tree whose condition is a group
RECURSIVE CountGroupConditions(_)
RECURSIVE CountGroupConditionsFrom(_, _)
CountGroupConditionsFrom(node, k) ==
  IF k > Len(node.operands) THEN 0
  ELSE (IF HoldsNode(node.operands[k])
          THEN CountGroupConditions(node.operands[k]) ELSE 0)
       + CountGroupConditionsFrom(node, k + 1)

CountGroupConditions(node) ==
  (IF node.type = "if_then_else" /\ node.operands[1].type = "group" THEN 1 ELSE 0)
  + CountGroupConditionsFrom(node, 1)

(***************************************************************************)
(* C23: in the AST of every successfully constructed expression no node    *)
(* has the kind if_, _then_ or _else: each if/then or ? group built during *)
(* parsing ends up as a group child of an if_then_else node with exactly   *)
(* three operands (condition, then-result, else-result).                   *)
(***************************************************************************)
C23_NoTernaryPartNodes ==
  Constructed =>
    /\ TernariesComplete(root[1])
    /\ CountTernaries(root[1]) = Cardinality(ThenGroups)
    /\ CountGroupConditions(root[1]) >= Cardinality(IfGroups)
    /\ input \in NestedTernaryInputs => CountTernaries(root[1]) >= 1

\* if if a then 0 else 1 then 2 else 3 was constructed with two ternaries,
\* the conditions and then parts groups
C23_Witness ==
  /\ input = <<"i", "f", " ", "i", "f", " ", "a", " ", "t", "h", "e", "n", " ", "0",
      " ", "e", "l", "s", "e", " ", "1", " ", "t", "h", "e", "n", " ", "2", " ", "e",
      "l", "s", "e", " ", "3">>
  /\ pc = "built"
  /\ root = <<Group(Ternary(Group(Ternary(Group(Variable(0)), Group(Literal(0)),
                                          Literal(1))),
                            Group(Literal(2)), Literal(3)))>>

\* the child lists in which an OPERAND token directly follows another
AdjacentOperands ==
  { k \in 1..Len(tokens) :
      \E j \in 1..(Len(tokens[k].children) - 1) :
        /\ tokens[tokens[k].children[j]].category = "OPERAND"
        /\ tokens[tokens[k].children[j + 1]].category = "OPERAND" }

\* the COLLECTION tokens that are not the last child of their parent
FollowedCollections ==
  { k \in 1..Len(tokens) :
      \E j \in 1..(Len(tokens[k].children) - 1) :
        tokens[tokens[k].children[j]].type = "COLLECTION" }

(***************************************************************************)
(* C24: no child list of the token tree ever holds an OPERAND token        *)
(* directly after another OPERAND token.  The tokenizer is in the operand  *)
(* state between two iterations only at the end of the input; an input in  *)
(* which name[] is followed by something other than the terminator of the  *)
(* enclosing group or the end of the input fails with "Unexpected          *)
(* character" and is never tokenized, and so is an input with two          *)
(* operands next to each other; an input in which name[] is followed by    *)
(* the terminator or the end of the input is tokenized.  While the input   *)
(* is tokenized the COLLECTION token is the last child of its parent.      *)
(***************************************************************************)
C24_NoAdjacentOperands ==
  /\ AdjacentOperands = {}
  /\ pc = "tokenize" /\ expected = "OPERAND" => pos = Len(input)
  /\ input \in CollectionFollowedInputs \cup AdjacentOperandInputs =>
       /\ ~IsTokenized
       /\ pc = "failed" =>
            error = [kind |-> "runtime_error", what |-> "unexpected_character"]
  /\ input \in CollectionFollowedInputs /\ pc = "tokenize" =>
       FollowedCollections = {}
  /\ input \in CollectionEndInputs /\ pc = "failed" =>
       error.kind # "runtime_error"

\* c[] b has failed after the COLLECTION token was appended to the root
C24_Witness ==
  /\ input = <<"c", "[", "]", " ", "b">>
  /\ pc = "failed"
  /\ error = [kind |-> "runtime_error", what |-> "unexpected_character"]
  /\ Len(tokens) = 2
  /\ tokens[1].children = <<2>>
  /\ tokens[2].type = "COLLECTION"
  /\ expected = "OPERAND"

(***************************************************************************)
(* C25, as stated: while an input is tokenized the group stack holds the   *)
(* entry of the root at its bottom, and no iteration of the tokenizer asks *)
(* for the top of an empty stack.                                          *)
(***************************************************************************)
C25_RootStaysOnStack ==
  /\ pc = "tokenize" => (groupStack # <<>> /\ groupStack[1] = RootEntry)
  /\ pc = "failed" => error.kind # "ub"

\* 1#2: the # after the operand 1 has closed the root, and the iteration
\* that follows has asked for the top of the empty stack
C25_Witness ==
  /\ input = <<"1", "#", "2">>
  /\ pc = "failed"
  /\ error = [kind |-> "ub", what |-> "top_of_empty_stack"]
  /\ groupStack = <<>>
  /\ pos = 2
  /\ expected = "POSTFIX"

\* whether the token is the := operator (in either spelling)
IsPlainAssign(tok) ==
  /\ tok.category = "INFIX"
  /\ tok.type = "OPERATOR"
  /\ tok.value \in {<<":", "=">>, <<"u_assign">>}

\* the tokens that are the target of a plain assignment: the first child of
\* a child list whose second child is :=
PlainTargets ==
  { tokens[k].children[1] :
      k \in { g \in 1..Len(tokens) :
                /\ Len(tokens[g].children) >= 2
                /\ IsPlainAssign(tokens[tokens[g].children[2]]) } }

\* the token lists other than that of the root whose second token is :=
NestedPlainAssignments ==
  { g \in 2..Len(tokens) :
      /\ Len(tokens[g].children) >= 2
      /\ IsPlainAssign(tokens[tokens[g].children[2]]) }

\* the identifiers written as scalar variables, in the order of the input,
\* the targets of plain assignments left out (assign has no node for its
\* target)
RECURSIVE WrittenVariablesFrom(_, _)
WrittenVariablesFrom(k, acc) ==
  IF k > Len(tokens) THEN acc
  ELSE IF tokens[k].type = "VARIABLE" /\ k \notin PlainTargets
    THEN WrittenVariablesFrom(k + 1, Append(acc, tokens[k].value))
  ELSE WrittenVariablesFrom(k + 1, acc)

WrittenVariables == WrittenVariablesFrom(1, <<>>)

\* the indices held by the variable nodes below a node, in the order of
\* the operands
RECURSIVE VariableIndices(_, _)
RECURSIVE VariableIndicesFrom(_, _, _)
VariableIndices(node, acc) ==
  IF node.type = "variable" THEN Append(acc, node.operands[1].value.n)
  ELSE VariableIndicesFrom(node.operands, 1, acc)

VariableIndicesFrom(operands, k, acc) ==
  IF k > Len(operands) THEN acc
  ELSE IF HoldsNode(operands[k])
    THEN VariableIndicesFrom(operands, k + 1, VariableIndices(operands[k], acc))
  ELSE VariableIndicesFrom(operands, k + 1, acc)

\* every variable node holds an index into the given table, and the table
\* has there the identifier written at the place of the node
IndicesName(indices, written, table) ==
  /\ Len(indices) = Len(written)
  /\ \A j \in 1..Len(indices) :
       /\ indices[j] < Len(table)
       /\ table[indices[j] + 1] = written[j]

(***************************************************************************)
(* C26, as stated: after a successful construction every variable node of  *)
(* the AST holds an index smaller than the length of variables(), and      *)
(* variables() has at that index the identifier written at that place of   *)
(* the input, also when an assignment stands in brackets, call arguments   *)
(* or a part of a ternary.                                                 *)
(***************************************************************************)
C26_VariableIndicesValid ==
  Constructed =>
    IndicesName(VariableIndices(root[1], <<>>), WrittenVariables, variables)

\* the same for the expressions whose only plain assignment, if any, is the
\* one of the root
C26_TopLevelVariableIndicesValid ==
  (Constructed /\ NestedPlainAssignments = {}) =>
    IndicesName(VariableIndices(root[1], <<>>), WrittenVariables, variables)

\* a + (b := c) is constructed: the := in the brackets has cleared the
\* table, c has taken the index 0 that the node of a holds
C26_Witness ==
  /\ input = <<"a", " ", "+", " ", "(", "b", " ", ":", "=", " ", "c", ")">>
  /\ pc = "built"
  /\ variables = << <<"c">> >>
  /\ target = << <<"b">> >>
  /\ root = <<Group(Binary("add", Variable(0),
                            Group(Unary("assign", Variable(0)))))>>

\* whether every group node at or below the node has exactly one operand
RECURSIVE GroupsHoldOne(_)
GroupsHoldOne(node) ==
  /\ node.type = "group" => Len(node.operands) = 1
  /\ \A k \in 1..Len(node.operands) :
       HoldsNode(node.operands[k]) => GroupsHoldOne(node.operands[k])

(***************************************************************************)
(* C27, as stated: in the AST of a successfully constructed expression     *)
(* every group node, the root included, has exactly one operand; an input  *)
(* with a separator in the root, in brackets or in a part of a ternary is  *)
(* rejected or evaluates all of its segments.                              *)
(***************************************************************************)
C27_GroupsHoldOneOperand ==
  Constructed => GroupsHoldOne(root[1])

\* a, b was evaluated with a = 1 and b = 2: the root group has two
\* operands and the value is that of the first
C27_Witness ==
  /\ input = <<"a", ",", " ", "b">>
  /\ pc = "evaluated"
  /\ root = <<Node("group", <<Variable(0), Variable(1)>>)>>
  /\ values = <<Num(1), Num(2)>>
  /\ result = Ok(Num(1))

\* the prefix operator tokens spelled by one of the given lexemes
PrefixOperators(lexemes) ==
  { k \in 1..Len(tokens) :
      /\ tokens[k].category = "PREFIX"
      /\ tokens[k].type = "OPERATOR"
      /\ tokens[k].value \in lexemes }

\* the prefix operator tokens directly before the group of an if
PrefixedIfGroups ==
  { k \in PrefixOperators({<<"-">>, <<"!">>, <<"u_not">>}) :
      \E g \in 1..Len(tokens) :
        \E j \in 1..(Len(tokens[g].children) - 1) :
          /\ tokens[g].children[j] = k
          /\ tokens[tokens[g].children[j + 1]].category = "PREFIX"
          /\ tokens[tokens[g].children[j + 1]].type = "GROUP" }

\* the number of nodes of the given type at or below a node
RECURSIVE CountNodes(_, _)
RECURSIVE CountNodesFrom(_, _, _)
CountNodes(node, type) ==
  (IF node.type = type THEN 1 ELSE 0) + CountNodesFrom(node.operands, 1, type)

CountNodesFrom(operands, k, type) ==
  IF k > Len(operands) THEN 0
  ELSE (IF HoldsNode(operands[k]) THEN CountNodes(operands[k], type) ELSE 0)
         + CountNodesFrom(operands, k + 1, type)

(***************************************************************************)
(* C28, as stated: the AST of a successfully constructed expression has    *)
(* one negate node for every prefix - of the input and one logical_not     *)
(* node for every prefix ! or its one-glyph form, also when the operand    *)
(* that follows the operator is an if ... then ... else.                   *)
(***************************************************************************)
C28_PrefixOperatorsKept ==
  Constructed =>
    /\ CountNodes(root[1], "negate") = Cardinality(PrefixOperators({<<"-">>}))
    /\ CountNodes(root[1], "logical_not") =
         Cardinality(PrefixOperators({<<"!">>, <<"u_not">>}))

\* the same for the expressions in which no prefix operator stands before
\* an if
C28_PrefixOperatorsOfOperandsKept ==
  (Constructed /\ PrefixedIfGroups = {}) =>
    /\ CountNodes(root[1], "negate") = Cardinality(PrefixOperators({<<"-">>}))
    /\ CountNodes(root[1], "logical_not") =
         Cardinality(PrefixOperators({<<"!">>, <<"u_not">>}))

\* -if a then 1 else 2 was evaluated with a = 1: the AST has no negate
\* node and the value is 1
C28_Witness ==
  /\ input = <<"-", "i", "f", " ", "a", " ", "t", "h", "e", "n", " ", "1", " ",
               "e", "l", "s", "e", " ", "2">>
  /\ pc = "evaluated"
  /\ root = <<Group(Ternary(Group(Variable(0)), Group(Literal(1)), Literal(2)))>>
  /\ values = <<Num(1)>>
  /\ result = Ok(Num(1))

\* the errors that tokenize raises
RaisedError == pc' = "failed" /\ error'.kind \in {"runtime_error", "logic_error"}

(***************************************************************************)
(* C29, as stated: every iteration of the loop of tokenize consumes at     *)
(* least one character of the input (an iteration that stops at the end of *)
(* the input has consumed the blanks before it) or raises an error, and    *)
(* the position never exceeds the length of the input: the loop ends after *)
(* at most as many iterations as the input has characters.                 *)
(***************************************************************************)
C29_PositionIncreases ==
  /\ [](pos <= Len(input))
  /\ [][TokenizeStep => (pos' > pos \/ RaisedError)]_vars

\* the same for the iterations that start with a group on the stack
C29_PositionIncreasesInGroups ==
  /\ [](pos <= Len(input))
  /\ [][(TokenizeStep /\ groupStack # <<>>) => (pos' > pos \/ RaisedError)]_vars

\* 1#+2: the iteration after the # that has closed the root has neither
\* consumed a character nor raised an error of the tokenizer
C29_Witness ==
  /\ input = <<"1", "#", "+", "2">>
  /\ pc = "failed"
  /\ error.kind = "ub"
  /\ pos = 2
  /\ groupStack = <<>>

\* the last child of a token
LastChild(tok) == tok.children[Len(tok.children)]

\* every entry above the bottom of the stack refers to the last child of
\* the token that the entry below it refers to
EntriesReferToLastChild(stack, heap) ==
  \A i \in 2..Len(stack) :
    /\ heap[stack[i - 1].first].children # <<>>
    /\ stack[i].first = LastChild(heap[stack[i - 1].first])

\* the entries of the stack that the step leaves on the stack
StayingEntries ==
  { i \in 1..Len(groupStack) :
      i <= Len(groupStack') /\ groupStack'[i] = groupStack[i] }

\* the child list of a token grows in a step only if an entry of the stack
\* refers to the token and no entry above that one stays on the stack
GrowsOnTopOnly ==
  \A k \in 1..Len(tokens) :
    tokens'[k].children # tokens[k].children =>
      \E i \in 1..Len(groupStack) :
        /\ groupStack[i].first = k
        /\ \A j \in (i + 1)..Len(groupStack) : j \notin StayingEntries

(***************************************************************************)
(* C30: at every step of the tokenization every entry of the group stack   *)
(* above its bottom refers to the last child of the token that the entry   *)
(* directly below refers to; a step of the tokenizer appends only to the   *)
(* children of the entry that is on top when it appends (the top entry, or *)
(* the entry below it after the top was removed), so the child list that   *)
(* holds the token of an entry does not grow while the entry is on the     *)
(* stack; tokens are never removed or changed otherwise.                   *)
(***************************************************************************)
C30_EntriesReferToLastChild ==
  /\ [](EntriesReferToLastChild(groupStack, tokens))
  /\ [][TokenizeStep =>
          /\ GrowsOnTopOnly
          /\ Len(tokens') >= Len(tokens)
          /\ \A k \in 1..Len(tokens) :
               /\ tokens'[k].value = tokens[k].value
               /\ tokens'[k].type = tokens[k].type
               /\ Len(tokens'[k].children) >= Len(tokens[k].children)
               /\ SubSeq(tokens'[k].children, 1, Len(tokens[k].children)) =
                    tokens[k].children]_vars

\* max(1, (2 has been read: the stack holds the root, the call and the
\* bracket, and the bracket is the third and last child of the call
C30_Witness ==
  /\ input = <<"m", "a", "x", "(", "1", ",", " ", "(", "2">>
  /\ pc = "tokenize"
  /\ pos = Len(input)
  /\ Len(groupStack) = 3
  /\ Len(tokens[groupStack[2].first].children) = 3
  /\ groupStack[3].first = tokens[groupStack[2].first].children[3]
  /\ tokens[groupStack[3].first].children # <<>>

====
